---- MODULE Spec2Model ----
(***************************************************************************)
(* Verification model of texbridge (scripts/preprocess_tex.py,             *)
(* scripts/convert_to_listings.py, scripts/fix_roundtrip.py).              *)
(*                                                                         *)
(* Each subsystem has its own group of variables and its own               *)
(* specification; a specification keeps the other groups at their idle     *)
(* value.                                                                  *)
(*   SpecProject : preprocess_project / preprocess_file /                  *)
(*                 convert_lstlisting_for_pandoc (listing numbering)       *)
(***************************************************************************)
EXTENDS Integers, Sequences, FiniteSets, TLC

VARIABLES
    \* ---- preprocess_tex.py: one project and its preprocess_project runs
    files,            \* path -> unit content, a sequence of items
    pc,               \* "edit" | "walk" | "done"
    run,              \* number of preprocess_project runs started
    todo,             \* the files os.walk still has to yield, in order
    listing_counter,  \* dict {chapter_num: count} of the current run
    processed,        \* files pre-processed in the current run
    log,              \* numbers handed out in the current run, in order
    numbers,          \* run -> path -> numbers handed out in that file
    \* ---- caption escaping (convert_to_listings.py -> preprocess_tex.py)
    caption,          \* the caption text get_caption returned
    lst_caption,      \* the caption as written into \begin{lstlisting}[caption={..}]
    out_caption,      \* the caption as emitted in the "Listing c.k --- .." line
    cap_pc,           \* "idle" | "derived" | "escaped" | "unescaped"
    \* ---- fix_roundtrip.py: Content Identity Reconciler
    src_files,        \* file name in src_dir -> content
    media_is_dir,     \* os.path.isdir(media_dir)
    media_files,      \* path below media_dir -> content
    mapping,          \* dict {round-tripped path: original file name}
    img_pc,           \* "idle" | "start" | "mapped" | "fixed" | "again"
    img_refs,         \* input: the asset references of the restored text
    img_text,         \* the text fix_image_paths works on
    images_dir,       \* file name in output_dir/images -> content and origin
    \* ---- convert_to_listings.py: one unit and its process_file calls
    tex_pre,          \* input: the text in front of the first verbatim block
    block_lines,      \* input: the kinds of the lines of the first block
    tex_post,         \* input: the text behind the first verbatim block
    tex_file,         \* the content of the file on disk
    converted,        \* return value of the last process_file call
    written,          \* whether the last process_file call wrote the file
    cls_pc,           \* "idle" | "new" | "once" | "twice"
    \* ---- fix_roundtrip.py: Anchor Restorer
    captions,         \* input: the caption constructs of the restored text
    labels,           \* the Caption Index, a dict in insertion order
    lbl_text,         \* the text restore_labels works on
    lbl_pc,           \* "idle" | "start" | "done"
    lbl_reported,     \* the number of the "Restored N labels" message
    \* ---- fix_roundtrip.py: Reverse Repair Pipeline
    rp_in,            \* input: the round-tripped text
    rp_text,          \* the text the rules work on
    rp_once,          \* the text after the first pass of the pipeline
    rp_stage,         \* the next rule, 1..9; 0 when idle; 10 when done
    rp_pass,          \* the pass the pipeline is in, 1 or 2
    \* ---- preprocess_tex.py: preprocess_file on one unit
    nz_in,            \* input: the content of the unit
    nz_titlepage,     \* input: whether the unit is titlepage.tex
    nz_text,          \* the content the rules work on
    nz_stage,         \* the next rule, 1..7; 8: to be written; 9: done; 0: idle
    nz_out            \* the content of the output file

projectVars == <<files, pc, run, todo, listing_counter, processed, log, numbers>>
captionVars == <<caption, lst_caption, out_caption, cap_pc>>
imageVars   == <<src_files, media_is_dir, media_files, mapping, img_pc,
                 img_refs, img_text, images_dir>>

listingVars == <<tex_pre, block_lines, tex_post, tex_file, converted, written, cls_pc>>

labelVars   == <<captions, labels, lbl_text, lbl_pc, lbl_reported>>

repairVars  == <<rp_in, rp_text, rp_once, rp_stage, rp_pass>>

normalizerVars == <<nz_in, nz_titlepage, nz_text, nz_stage, nz_out>>

vars == <<projectVars, captionVars, imageVars, listingVars, labelVars, repairVars,
          normalizerVars>>

notProject == <<captionVars, imageVars, listingVars, labelVars, repairVars,
               normalizerVars>>
notCaption == <<projectVars, imageVars, listingVars, labelVars, repairVars,
               normalizerVars>>
notImage   == <<projectVars, captionVars, listingVars, labelVars, repairVars,
               normalizerVars>>
notListing == <<projectVars, captionVars, imageVars, labelVars, repairVars,
               normalizerVars>>
notLabel   == <<projectVars, captionVars, imageVars, listingVars, repairVars,
               normalizerVars>>
notRepair  == <<projectVars, captionVars, imageVars, listingVars, labelVars,
               normalizerVars>>

\* The idle value of each group.
ProjectIdle ==
    /\ files = <<>> /\ pc = "idle" /\ run = 0 /\ todo = <<>>
    /\ listing_counter = <<>> /\ processed = 0 /\ log = <<>> /\ numbers = <<>>

CaptionIdle ==
    /\ caption = <<>> /\ lst_caption = <<>> /\ out_caption = <<>>
    /\ cap_pc = "idle"

ImageIdle ==
    /\ src_files = <<>> /\ media_is_dir = FALSE /\ media_files = <<>>
    /\ mapping = <<>> /\ img_pc = "idle"
    /\ img_refs = <<>> /\ img_text = <<>> /\ images_dir = <<>>

ListingIdle ==
    /\ tex_pre = <<>> /\ block_lines = <<>> /\ tex_post = <<>>
    /\ tex_file = <<>> /\ converted = 0 /\ written = FALSE /\ cls_pc = "idle"

LabelIdle ==
    /\ captions = <<>> /\ labels = <<>> /\ lbl_text = <<>> /\ lbl_pc = "idle"
    /\ lbl_reported = 0

RepairIdle ==
    /\ rp_in = <<>> /\ rp_text = <<>> /\ rp_once = <<>>
    /\ rp_stage = 0 /\ rp_pass = 0

NormalizerIdle ==
    /\ nz_in = <<>> /\ nz_titlepage = FALSE /\ nz_text = <<>>
    /\ nz_stage = 0 /\ nz_out = <<>>

notNormalizer == <<projectVars, captionVars, imageVars, listingVars, labelVars,
                   repairVars>>

IdleButProject == CaptionIdle /\ ImageIdle /\ ListingIdle /\ LabelIdle /\ RepairIdle
                     /\ NormalizerIdle
IdleButCaption == ProjectIdle /\ ImageIdle /\ ListingIdle /\ LabelIdle /\ RepairIdle
                     /\ NormalizerIdle
IdleButImage   == ProjectIdle /\ CaptionIdle /\ ListingIdle /\ LabelIdle /\ RepairIdle
                     /\ NormalizerIdle
IdleButListing == ProjectIdle /\ CaptionIdle /\ ImageIdle /\ LabelIdle /\ RepairIdle
                     /\ NormalizerIdle
IdleButLabel   == ProjectIdle /\ CaptionIdle /\ ImageIdle /\ ListingIdle /\ RepairIdle
                     /\ NormalizerIdle
IdleButRepair  == ProjectIdle /\ CaptionIdle /\ ImageIdle /\ ListingIdle /\ LabelIdle
                     /\ NormalizerIdle

IdleButNormalizer ==
    ProjectIdle /\ CaptionIdle /\ ImageIdle /\ ListingIdle /\ LabelIdle /\ RepairIdle

(***************************************************************************)
(* Generic helpers                                                         *)
(***************************************************************************)
EmptyDict == [k \in {} |-> 0]

Range(s) == {s[i] : i \in DOMAIN s}

\* First position >= i of a token of class C, 0 if there is none.
RECURSIVE FindIn(_, _, _)
FindIn(s, i, C) ==
    IF i > Len(s) THEN 0 ELSE IF s[i] \in C THEN i ELSE FindIn(s, i + 1, C)

RECURSIVE SumLen(_, _)
SumLen(f, S) ==
    IF S = {} THEN 0
    ELSE LET p == CHOOSE q \in S : TRUE IN Len(f[p]) + SumLen(f, S \ {p})

(***************************************************************************)
(* preprocess_tex.py : the project                                         *)
(*                                                                         *)
(* A unit is seen at the granularity convert_lstlisting_for_pandoc works   *)
(* at: a sequence of items, each either one match of the heading pattern   *)
(* \subsubsection*{N. (with its chapter number N) or one match of the      *)
(* lstlisting pattern.                                                     *)
(***************************************************************************)
MaxItems   == 5      \* items in all units of the project together
MaxChapter == 2      \* chapter numbers that occur in headings

\* The project is pre-processed twice, without a change in between.
Runs == {1, 2}

Heading(n) == [k |-> "heading", n |-> n]
Listing    == [k |-> "listing", n |-> 0]
Items      == {Heading(n) : n \in 1..MaxChapter} \cup {Listing}

\* Directory tree below src_dir: the root and two sub-directories.
RootDir == "."
SubDirs == {"a", "b"}
\* File names in the order sorted() puts them.
SortedNames == <<"main.tex", "notes.txt", "s1.tex">>
AllPaths == { <<RootDir, "main.tex">>, <<"a", "s1.tex">>, <<"a", "notes.txt">>,
              <<"b", "s1.tex">> }

\* fname.endswith('.tex')
IsTex(p) == p[2] \in {"main.tex", "s1.tex"}
TexPaths == {p \in AllPaths : IsTex(p)}

\* sorted(files) for the files of one directory.
SortedFiles(dir) ==
    SelectSeq([i \in 1..Len(SortedNames) |-> <<dir, SortedNames[i]>>],
              LAMBDA p : p \in AllPaths)

\* The orders in which os.walk may yield the sub-directories: os.walk takes
\* them from os.scandir, whose order is arbitrary, and does not sort them.
DirOrders == {s \in [1..Cardinality(SubDirs) -> SubDirs] : Range(s) = SubDirs}

RECURSIVE WalkFiles(_)
WalkFiles(dirs) ==
    IF dirs = <<>> THEN <<>>
    ELSE SortedFiles(Head(dirs)) \o WalkFiles(Tail(dirs))

\* os.walk(src_dir), top-down: the root first, then the sub-directories.
os_walk(dirOrder) == WalkFiles(<<RootDir>> \o dirOrder)

\* re.search(r'\\subsubsection\*?\{(\d+)\.', content): the first heading
\* pattern anywhere in the unit; chapter_num is 0 when there is none.
RECURSIVE chapter_match(_)
chapter_match(content) ==
    IF content = <<>> THEN 0
    ELSE IF Head(content).k = "heading" THEN Head(content).n
    ELSE chapter_match(Tail(content))

\* Mutant of IncrementCounter: the count is set, not incremented.
IncrementCounter_reset(counter, chapter_num) ==
    [c \in DOMAIN counter \cup {chapter_num} |->
        IF c = chapter_num THEN 1 ELSE counter[c]]

\* replace_listing, lines 82-84: create the entry at 0, then add one.
IncrementCounter(counter, chapter_num) ==
    [c \in DOMAIN counter \cup {chapter_num} |->
        IF c = chapter_num
        THEN (IF c \in DOMAIN counter THEN counter[c] ELSE 0) + 1
        ELSE counter[c]]

\* pattern.sub(replace_listing, content): replace_listing is called for each
\* lstlisting match from left to right with the chapter_num of the unit.
\* Result: the counter afterwards and the numbers "chapter.count" handed out.
RECURSIVE replace_listings(_, _, _, _)
replace_listings(content, chapter_num, counter, nums) ==
    IF content = <<>> THEN [counter |-> counter, nums |-> nums]
    ELSE IF Head(content).k = "listing"
    THEN LET c2 == IncrementCounter(counter, chapter_num)
         IN replace_listings(Tail(content), chapter_num, c2,
                             Append(nums, <<chapter_num, c2[chapter_num]>>))
    ELSE replace_listings(Tail(content), chapter_num, counter, nums)

convert_lstlisting_for_pandoc(content, counter) ==
    replace_listings(content, chapter_match(content), counter, <<>>)

NoNumbers == [r \in Runs |-> [p \in TexPaths |-> <<>>]]

InitProject ==
    /\ files = [p \in TexPaths |-> <<>>]
    /\ pc = "edit"
    /\ run = 0
    /\ todo = <<>>
    /\ listing_counter = EmptyDict
    /\ processed = 0
    /\ log = <<>>
    /\ numbers = NoNumbers
    /\ IdleButProject

\* The author adds a heading or a listing to a unit (before any run).
EditUnit(p, it) ==
    /\ pc = "edit"
    /\ run = 0
    /\ SumLen(files, TexPaths) < MaxItems
    /\ files' = [files EXCEPT ![p] = Append(@, it)]
    /\ UNCHANGED <<pc, run, todo, listing_counter, processed, log, numbers>>
    /\ UNCHANGED notProject

\* preprocess_project, lines 168-174: fresh counter, the walk starts.
StartRun(dirOrder) ==
    /\ pc \in {"edit", "done"}
    /\ run + 1 \in Runs
    /\ run' = run + 1
    /\ pc' = "walk"
    /\ todo' = os_walk(dirOrder)
    /\ listing_counter' = EmptyDict
    /\ processed' = 0
    /\ log' = <<>>
    /\ numbers' = [numbers EXCEPT ![run + 1] = [p \in TexPaths |-> <<>>]]
    /\ UNCHANGED files
    /\ UNCHANGED notProject

\* Loop body, lines 176-177: a file that is not .tex is skipped.
SkipFile ==
    /\ pc = "walk"
    /\ todo # <<>>
    /\ ~IsTex(Head(todo))
    /\ todo' = Tail(todo)
    /\ UNCHANGED <<files, pc, run, listing_counter, processed, log, numbers>>
    /\ UNCHANGED notProject

\* Loop body, lines 178-184: preprocess_file(src_path, dst_path,
\* listing_counter) with the shared counter.
preprocess_file ==
    /\ pc = "walk"
    /\ todo # <<>>
    /\ IsTex(Head(todo))
    /\ LET p == Head(todo)
           r == convert_lstlisting_for_pandoc(files[p], listing_counter)
       IN /\ listing_counter' = r.counter
          /\ log' = log \o r.nums
          /\ numbers' = [numbers EXCEPT ![run][p] = r.nums]
    /\ processed' = processed + 1
    /\ todo' = Tail(todo)
    /\ UNCHANGED <<files, pc, run>>
    /\ UNCHANGED notProject

\* preprocess_project returns after the walk.
FinishRun ==
    /\ pc = "walk"
    /\ todo = <<>>
    /\ pc' = "done"
    /\ UNCHANGED <<files, run, todo, listing_counter, processed, log, numbers>>
    /\ UNCHANGED notProject

NextProject ==
    \/ \E p \in TexPaths, it \in Items : EditUnit(p, it)
    \/ \E d \in DirOrders : StartRun(d)
    \/ SkipFile
    \/ preprocess_file
    \/ FinishRun

SpecProject == InitProject /\ [][NextProject]_vars

Spec == SpecProject

(***************************************************************************)
(* Claims about listing numbering (SpecProject)                            *)
(***************************************************************************)
\* Number of entries among the first i of the log that belong to chapter c.
CountUpTo(c, i) == Cardinality({j \in 1..i : log[j][1] = c})

C1_Consecutive ==
    /\ \A i \in 1..Len(log) : log[i][2] = CountUpTo(log[i][1], i)
    /\ \A c \in DOMAIN listing_counter :
          listing_counter[c] = CountUpTo(c, Len(log))

C1_NeverReset ==
    (pc = "walk") =>
        \A c \in DOMAIN listing_counter :
            /\ c \in DOMAIN listing_counter'
            /\ listing_counter'[c] >= listing_counter[c]

\* C1: within one preprocess_project run the k-th listing assigned to
\* chapter c is numbered c.k (consecutive from 1, no gap, no repeat across
\* files), and during the run a chapter's count is never reset or decreased.
C1_ListingNumbering == []C1_Consecutive /\ [][C1_NeverReset]_vars

\* Witness for C1: three listings of chapter 2, spread over more than one
\* file, have been numbered 2.1, 2.2, 2.3.
C1_Witness ==
    /\ pc = "done"
    /\ log = << <<2, 1>>, <<2, 2>>, <<2, 3>> >>
    /\ Cardinality({p \in TexPaths : numbers[run][p] # <<>>}) >= 2

\* Positions of the listings of a unit, in order.
ListingPositions(unit) ==
    SelectSeq([i \in 1..Len(unit) |-> i], LAMBDA i : unit[i].k = "listing")

\* Chapter of the nearest heading pattern before position i, 0 if none.
NearestHeadingBefore(unit, i) ==
    LET H == {j \in 1..(i - 1) : unit[j].k = "heading"}
    IN IF H = {} THEN 0
       ELSE unit[CHOOSE j \in H : \A h \in H : h <= j].n

\* C2: the chapter number of every listing is the number of the nearest
\* heading pattern that precedes the listing in its unit, 0 when no heading
\* precedes it.
C2_NearestPrecedingHeading ==
    (pc = "done") =>
        \A p \in TexPaths :
            LET pos == ListingPositions(files[p])
            IN \A j \in 1..Len(pos) :
                  /\ j <= Len(numbers[run][p])
                  /\ numbers[run][p][j][1] = NearestHeadingBefore(files[p], pos[j])

\* C3: two runs over the same unchanged file set give every listing the
\* same number, whatever order the file system enumerates directories in.
C3_RunsAgree ==
    (run = 2 /\ pc = "done") => numbers[1] = numbers[2]

(***************************************************************************)
(* Caption escaping: convert_to_listings.escape_caption (forward) and the  *)
(* unescaping in preprocess_tex.replace_listing (reverse).                 *)
(* A caption is a sequence of characters.                                  *)
(***************************************************************************)
MaxCaption == 4      \* characters in a caption

\* The four special characters, the backslash and an ordinary letter.
CaptionChars == {"_", "#", "&", "%", "\\", "a"}

RECURSIVE SeqsUpTo(_, _)
SeqsUpTo(S, n) ==
    IF n = 0 THEN {<<>>}
    ELSE LET shorter == SeqsUpTo(S, n - 1)
         IN shorter \cup {Append(t, c) : t \in {u \in shorter : Len(u) = n - 1}, c \in S}

\* Python's str.replace(old, new): all non-overlapping occurrences, found
\* from left to right.
RECURSIVE str_replace(_, _, _)
str_replace(s, old, new) ==
    IF Len(s) < Len(old) THEN s
    ELSE IF SubSeq(s, 1, Len(old)) = old
    THEN new \o str_replace(SubSeq(s, Len(old) + 1, Len(s)), old, new)
    ELSE <<Head(s)>> \o str_replace(Tail(s), old, new)

\* convert_to_listings.py, escape_caption
escape_caption(text) ==
    LET t1 == str_replace(text, <<"_">>, <<"\\", "_">>)
        t2 == str_replace(t1, <<"#">>, <<"\\", "#">>)
        t3 == str_replace(t2, <<"&">>, <<"\\", "&">>)
    IN str_replace(t3, <<"%">>, <<"\\", "%">>)

\* Mutant of unescape_caption: the \% escape is not undone.
unescape_caption_no_percent(cap) ==
    LET c1 == str_replace(cap, <<"\\", "_">>, <<"_">>)
        c2 == str_replace(c1, <<"\\", "#">>, <<"#">>)
    IN str_replace(c2, <<"\\", "&">>, <<"&">>)

\* preprocess_tex.py, replace_listing, lines 79-80
unescape_caption(cap) ==
    LET c1 == str_replace(cap, <<"\\", "_">>, <<"_">>)
        c2 == str_replace(c1, <<"\\", "#">>, <<"#">>)
        c3 == str_replace(c2, <<"\\", "&">>, <<"&">>)
    IN str_replace(c3, <<"\\", "%">>, <<"%">>)

InitCaption ==
    /\ caption \in SeqsUpTo(CaptionChars, MaxCaption)
    /\ lst_caption = <<>>
    /\ out_caption = <<>>
    /\ cap_pc = "derived"
    /\ IdleButCaption

\* process_file, lines 73-74: the caption is escaped and written into the
\* lstlisting header.
EscapeCaption ==
    /\ cap_pc = "derived"
    /\ lst_caption' = escape_caption(caption)
    /\ cap_pc' = "escaped"
    /\ UNCHANGED <<caption, out_caption>>
    /\ UNCHANGED notCaption

\* replace_listing, lines 76-86: the caption of the lstlisting header is
\* unescaped and emitted.
UnescapeCaption ==
    /\ cap_pc = "escaped"
    /\ out_caption' = unescape_caption(lst_caption)
    /\ cap_pc' = "unescaped"
    /\ UNCHANGED <<caption, lst_caption>>
    /\ UNCHANGED notCaption

NextCaption == EscapeCaption \/ UnescapeCaption

SpecCaption == InitCaption /\ [][NextCaption]_vars

\* C9: escaping a caption with escape_caption and then unescaping it as
\* replace_listing does gives back the original caption.
C9_CaptionRoundTrip ==
    (cap_pc = "unescaped") => out_caption = caption

\* Witness for C9: a caption with a backslash in front of a special
\* character, and another special character, has made the round trip.
C9_Witness ==
    /\ cap_pc = "unescaped"
    /\ \E i \in 1..(Len(caption) - 1) :
          caption[i] = "\\" /\ caption[i + 1] \in {"_", "#", "&", "%"}
    /\ "%" \in Range(caption)
    /\ lst_caption # caption

(***************************************************************************)
(* fix_roundtrip.py : Content Identity Reconciler (build_image_mapping)    *)
(***************************************************************************)
MaxContent == 3      \* distinct file contents

Contents == 1..MaxContent

\* Files that may lie directly in src_dir, with their extension.
SrcNames == {"fig1.png", "fig2.png", "photo.jpg", "notes.tex"}
ExtOf(name) ==
    CASE name \in {"fig1.png", "fig2.png", "rId1.png"} -> "png"
      [] name \in {"photo.jpg", "rId2.jpg"} -> "jpg"
      [] OTHER -> "tex"

\* The extensions build_image_mapping globs for, in its loop order.
ImageExts == <<"png", "jpg", "jpeg", "gif", "svg">>
ExtRank(name) == CHOOSE i \in 1..Len(ImageExts) : ImageExts[i] = ExtOf(name)
IsImage(name) == \E i \in 1..Len(ImageExts) : ImageExts[i] = ExtOf(name)

\* Paths glob(media_dir/**/*) may yield: generated names, and one file that
\* carries the name of an original.
MediaPaths == { <<"media", "rId1.png">>, <<"media", "rId2.jpg">>,
                <<"media", "fig1.png">> }
basename(path) == path[Len(path)]

\* All functions from a subset of S to T (a directory listing).
Listings(S, T) == UNION {[D -> T] : D \in SUBSET S}

\* md5_file: the digest of a content. MD5 is taken as collision-free, so a
\* digest is the content under a tag; digests and contents are never mixed.
md5_file(content) == <<"md5", content>>

\* Lines 205-209: original_by_hash after the loops. Every image of src_dir
\* is entered under its digest and a later entry overwrites an earlier one:
\* the extensions are visited in the order of ImageExts, the files of one
\* extension in glob's arbitrary order. So the entry of a digest is any of
\* the files with that digest whose extension comes last.
OriginalByHashChoices(src) ==
    LET imgs == {n \in DOMAIN src : IsImage(n)}
        digests == {md5_file(src[n]) : n \in imgs}
        last(h) == {n \in imgs :
                      /\ md5_file(src[n]) = h
                      /\ \A m \in imgs : md5_file(src[m]) = h
                                           => ExtRank(m) <= ExtRank(n)}
    IN {f \in [digests -> imgs] : \A h \in digests : f[h] \in last(h)}

\* Mutant of resolve_media: a round-tripped file is matched by its name.
resolve_media_by_name(media, original_by_hash) ==
    LET names == {original_by_hash[h] : h \in DOMAIN original_by_hash}
    IN [fpath \in {q \in DOMAIN media : basename(q) \in names}
           |-> basename(fpath)]

\* Lines 212-218: every round-tripped file whose digest is a key of
\* original_by_hash is mapped to the file name stored there.
resolve_media(media, original_by_hash) ==
    [fpath \in {q \in DOMAIN media : md5_file(media[q]) \in DOMAIN original_by_hash}
        |-> original_by_hash[md5_file(media[fpath])]]

InitImages ==
    /\ src_files \in Listings(SrcNames, Contents)
    /\ media_is_dir \in BOOLEAN
    /\ media_files \in Listings(MediaPaths, Contents)
    /\ ~media_is_dir => media_files = <<>>
    /\ mapping = <<>>
    /\ img_pc = "start"
    /\ img_refs = <<>> /\ img_text = <<>> /\ images_dir = <<>>
    /\ IdleButImage

\* build_image_mapping(src_dir, media_dir)
build_image_mapping ==
    /\ img_pc = "start"
    /\ IF ~media_is_dir
       THEN mapping' = <<>>
       ELSE \E obh \in OriginalByHashChoices(src_files) :
               mapping' = resolve_media(media_files, obh)
    /\ img_pc' = "mapped"
    /\ UNCHANGED <<src_files, media_is_dir, media_files>>
    /\ UNCHANGED <<img_refs, img_text, images_dir>>
    /\ UNCHANGED notImage

NextImages == build_image_mapping

SpecImages == InitImages /\ [][NextImages]_vars

\* The original assets: the image files of src_dir.
Originals == {n \in DOMAIN src_files : IsImage(n)}

\* C10: build_image_mapping records an entry for a round-tripped path iff
\* its content hash equals the hash of some original asset; the recorded
\* name is the file name of an original with that same content, whatever the
\* round-tripped file is called; an asset without a byte-identical original
\* gets no entry.
C10_HashBased ==
    (img_pc = "mapped") =>
        /\ DOMAIN mapping \subseteq DOMAIN media_files
        /\ \A fpath \in DOMAIN media_files :
              /\ fpath \in DOMAIN mapping
                    <=> \E n \in Originals :
                           md5_file(src_files[n]) = md5_file(media_files[fpath])
              /\ fpath \in DOMAIN mapping
                    => /\ mapping[fpath] \in Originals
                       /\ src_files[mapping[fpath]] = media_files[fpath]
              /\ (\A n \in Originals : src_files[n] # media_files[fpath])
                    => fpath \notin DOMAIN mapping

\* Witness for C10: a file with a generated name is resolved to an original
\* of another name, and a round-tripped file that carries the name of an
\* original but not its content is left unresolved.
C10_Witness ==
    /\ img_pc = "mapped"
    /\ \E fpath \in DOMAIN mapping : mapping[fpath] # basename(fpath)
    /\ \E fpath \in DOMAIN media_files :
          /\ basename(fpath) \in Originals
          /\ fpath \notin DOMAIN mapping

(***************************************************************************)
(* fix_roundtrip.py : fix_image_paths                                      *)
(*                                                                         *)
(* A path is the tuple of its segments; in a text it is written with a     *)
(* "/" token between the segments. No file name of the model is part of    *)
(* another one, so a substring of the text is a run of its tokens.         *)
(***************************************************************************)
MaxRefs == 1         \* asset references in the restored text

\* The originals and the two contents the files of this part may have.
AssetNames    == {"fig1.png", "fig2.png"}
AssetContents == {1, 2}

\* Paths glob(media_dir/**/*) may yield for media_dir = out/media: two
\* generated files of the same name in two sub-directories, and one file
\* that carries the name of an original.
RoundTripPaths == { <<"out", "media", "a", "rId1.png">>,
                    <<"out", "media", "b", "rId1.png">>,
                    <<"out", "media", "a", "fig1.png">> }

\* '/'.join(segments)
RECURSIVE JoinPath(_)
JoinPath(segs) ==
    IF Len(segs) <= 1 THEN segs
    ELSE <<Head(segs), "/">> \o JoinPath(Tail(segs))

\* Lines 240-248: basename, parent and grandparent of rId_path and the
\* three variants made of them, in the order of the list.
Variants(path) ==
    LET n == Len(path)
        base == path[n]
        parent == IF n >= 2 THEN path[n - 1] ELSE ""
        grandparent == IF n >= 3 THEN path[n - 2] ELSE ""
    IN << <<grandparent, "/", parent, "/", base>>,
          <<parent, "/", base>>,
          <<base>> >>

\* f'images/{original_name}'
ImagesRef(name) == <<"images", "/", name>>

\* Lines 236-249 for one entry of the mapping: the replacement of the full
\* path, then of each variant that is in the text (str.replace of a variant
\* that is not in the text changes nothing).
RECURSIVE replace_variants(_, _, _)
replace_variants(text, variants, name) ==
    IF variants = <<>> THEN text
    ELSE replace_variants(str_replace(text, Head(variants), ImagesRef(name)),
                          Tail(variants), name)

rewrite_entry(text, path, name) ==
    replace_variants(str_replace(text, JoinPath(path), ImagesRef(name)),
                     Variants(path), name)

\* Lines 228-251, the text: the entries of the mapping in the order of the
\* dict.
RECURSIVE rewrite_all(_, _, _)
rewrite_all(text, order, map) ==
    IF order = <<>> THEN text
    ELSE rewrite_all(rewrite_entry(text, Head(order), map[Head(order)]),
                     Tail(order), map)

\* Lines 230-232 for one entry: shutil.copy2(rId_path, dest) unless dest
\* exists. A file of images/ is its content and the file it was copied from.
copy_entry(dir, path, name, media) ==
    IF name \in DOMAIN dir THEN dir
    ELSE [n \in DOMAIN dir \cup {name} |->
             IF n = name THEN [content |-> media[path], origin |-> path]
             ELSE dir[n]]

RECURSIVE copy_all(_, _, _, _)
copy_all(dir, order, map, media) ==
    IF order = <<>> THEN dir
    ELSE copy_all(copy_entry(dir, Head(order), map[Head(order)], media),
                  Tail(order), map, media)

\* The orders a dict with the keys of S may have: the mapping is filled in
\* the order of glob, which is arbitrary.
KeyOrders(S) == {o \in [1..Cardinality(S) -> S] : Range(o) = S}

\* A reference, as the converter writes it: the path of an emitted file, in
\* full or from one of its last segments on.
RefForms == 1..4
RefText(ref) ==
    IF ref.form = 1 THEN JoinPath(ref.path)
    ELSE JoinPath(SubSeq(ref.path, ref.form, Len(ref.path)))

\* One reference per line.
RECURSIVE RenderRefs(_)
RenderRefs(refs) ==
    IF refs = <<>> THEN <<>>
    ELSE RefText(Head(refs)) \o <<"\n">> \o RenderRefs(Tail(refs))

\* A file that lay in images/ before the run.
StaleFile == [content |-> 0, origin |-> <<"images">>]

InitPaths ==
    /\ src_files \in Listings(AssetNames, AssetContents)
    /\ media_is_dir \in BOOLEAN
    /\ media_files \in Listings(RoundTripPaths, AssetContents)
    /\ ~media_is_dir => media_files = <<>>
    /\ mapping = <<>>
    /\ img_pc = "start"
    /\ img_refs \in SeqsUpTo([path : DOMAIN media_files, form : RefForms], MaxRefs)
    /\ img_text = RenderRefs(img_refs)
    /\ images_dir \in {<<>>, [n \in {"fig1.png"} |-> StaleFile]}
    /\ IdleButImage

\* fix_image_paths(text, mapping, output_dir). The tool may be run a second
\* time on the unchanged input: the text is the one read from the input
\* file, images/ is as the first run left it.
fix_image_paths ==
    /\ img_pc \in {"mapped", "fixed"}
    /\ \E order \in KeyOrders(DOMAIN mapping) :
          /\ img_text' = rewrite_all(RenderRefs(img_refs), order, mapping)
          /\ images_dir' = copy_all(images_dir, order, mapping, media_files)
    /\ img_pc' = IF img_pc = "mapped" THEN "fixed" ELSE "again"
    /\ UNCHANGED <<src_files, media_is_dir, media_files, mapping, img_refs>>
    /\ UNCHANGED notImage

NextPaths ==
    \/ build_image_mapping
    \/ fix_image_paths

SpecPaths == InitPaths /\ [][NextPaths]_vars

\* Line k of a text.
RECURSIVE LineOf(_, _)
LineOf(text, k) ==
    LET n == FindIn(text, 1, {"\n"})
    IN IF k = 1 THEN SubSeq(text, 1, n - 1)
       ELSE LineOf(SubSeq(text, n + 1, Len(text)), k - 1)

\* C11: after fix_image_paths every reference to a resolved asset, whatever
\* variant of the path it was written with, reads exactly
\* images/<original filename>; none has been rewritten a second time.
C11_RewrittenOnce ==
    (img_pc = "fixed") =>
        \A k \in DOMAIN img_refs :
            img_refs[k].path \in DOMAIN mapping
                => LineOf(img_text, k) = ImagesRef(mapping[img_refs[k].path])

\* C12: after fix_image_paths a reference, written with the full path, to a
\* round-tripped asset that no original matches is as it was.
C12_UnresolvedLeftAlone ==
    (img_pc = "fixed") =>
        \A k \in DOMAIN img_refs :
            (img_refs[k].path \notin DOMAIN mapping /\ img_refs[k].form = 1)
                => LineOf(img_text, k) = JoinPath(img_refs[k].path)

\* C19: fix_image_paths changes no file that is in images/, and every file
\* it adds for a resolved asset is a copy of the original of that name in
\* src_dir, not of the file the converter emitted.
C19_CopiesOriginal ==
    [][img_pc = "mapped" /\ img_pc' = "fixed" =>
          /\ \A n \in DOMAIN images_dir :
                n \in DOMAIN images_dir' /\ images_dir'[n] = images_dir[n]
          /\ \A n \in DOMAIN images_dir' \ DOMAIN images_dir :
                /\ n \in Range(mapping)
                /\ images_dir'[n].content = src_files[n]
                /\ images_dir'[n].origin = <<"src", n>>]_vars

\* C21: after fix_image_paths the file images/<original filename> of every
\* resolved asset holds the bytes of that original, also when a file of that
\* name with other content lay there before; a second run on the unchanged
\* input leaves every file of images/ as it is.
C21_ContentChecked ==
    /\ [](img_pc \in {"fixed", "again"} =>
            \A p \in DOMAIN mapping :
                /\ mapping[p] \in DOMAIN images_dir
                /\ images_dir[mapping[p]].content = src_files[mapping[p]])
    /\ [][img_pc = "fixed" /\ img_pc' = "again" => images_dir' = images_dir]_vars

(***************************************************************************)
(* convert_to_listings.py : Block Classifier and forward Listing           *)
(* Transcoder (process_file).                                              *)
(*                                                                         *)
(* A text is a sequence of tokens. A token is one character, or a run of   *)
(* characters that every pattern of the script treats alike: "\\begin{",   *)
(* "verbatim", ... hold no brace-close, no white space, no digit and no    *)
(* dot, so each character class of the patterns takes or leaves a token    *)
(* as a whole.                                                             *)
(***************************************************************************)
MaxLines  == 10      \* non-blank lines in the first verbatim block

MIN_LINES == 5
LOOKBACK  == 500     \* text_before[-500:]

BeginVerbatim == <<"\\begin{", "verbatim", "}">>
EndVerbatim   == <<"\\end{", "verbatim", "}">>
BeginListing  == <<"\\begin{", "lstlisting", "}", "[caption={">>
CloseCaption  == <<"}", "]">>
EndListing    == <<"\\end{", "lstlisting", "}">>
HeadingTokens == {"\\subsubsection*{", "\\subsubsection{"}
Textbf        == "\\textbf{"
Prose         == "<500 letters>"       \* a paragraph of 500 letters
DefaultCaption == <<"Fragment prohramnoho kodu">>

Whitespace == {" ", "\n"}
DigitsDot  == {"1", "3", "."}
\* Members of art_pattern [+|...box-drawing glyphs...]
ArtGlyphs  == {"+", "|"}

\* Number of characters of a token.
TokenWidth(t) ==
    CASE t = "\\begin{" -> 7
      [] t = "\\end{" -> 5
      [] t = "verbatim" -> 8
      [] t = "lstlisting" -> 10
      [] t = "[caption={" -> 10
      [] t = "\\subsubsection*{" -> 16
      [] t = "\\subsubsection{" -> 15
      [] t = Textbf -> 8
      [] t = Prose -> 500
      [] t = "Fragment prohramnoho kodu" -> 25
      [] OTHER -> 1

\* The element of a one-element set; used to bind a computed value once.
Only(S) == CHOOSE x \in S : TRUE

Min(S) == CHOOSE x \in S : \A y \in S : x <= y
Max(S) == CHOOSE x \in S : \A y \in S : y <= x

\* str.strip(), str.rstrip() and str.rstrip('.')
RECURSIVE lstrip(_)
lstrip(s) == IF s # <<>> /\ Head(s) \in Whitespace THEN lstrip(Tail(s)) ELSE s
RECURSIVE rstrip_set(_, _)
rstrip_set(s, chars) ==
    IF s # <<>> /\ s[Len(s)] \in chars
    THEN rstrip_set(SubSeq(s, 1, Len(s) - 1), chars) ELSE s
rstrip(s) == rstrip_set(s, Whitespace)
strip(s)  == lstrip(rstrip(s))

\* str.split('\n')
RECURSIVE split_lines(_, _)
split_lines(s, cur) ==
    IF s = <<>> THEN <<cur>>
    ELSE IF Head(s) = "\n" THEN <<cur>> \o split_lines(Tail(s), <<>>)
    ELSE split_lines(Tail(s), Append(cur, Head(s)))

\* Mutant of non_blank_lines: blank lines are counted too.
all_lines(code) == split_lines(strip(code), <<>>)

\* [l for l in code.strip().split('\n') if l.strip()]
non_blank_lines(code) ==
    SelectSeq(split_lines(strip(code), <<>>), LAMBDA l : strip(l) # <<>>)

\* Mutant of is_ascii_art: strictly more than 30%.
is_ascii_art_strict(code) ==
    Only({ IF lines = <<>> THEN FALSE
           ELSE 10 * Len(SelectSeq(lines, LAMBDA l : Range(l) \cap ArtGlyphs # {}))
                   > 3 * Len(lines)
           : lines \in {non_blank_lines(code)} })

\* is_ascii_art. The code compares art_lines >= len(lines) * 0.3 in binary
\* floating point; for every len(lines) below 2^50 the product rounds to
\* the integer 3*len/10 when that is an integer and lies strictly between
\* the neighbouring integers otherwise, so the comparison with the integer
\* art_lines is the exact one, 10 * art_lines >= 3 * len(lines).
is_ascii_art(code) ==
    Only({ IF lines = <<>> THEN FALSE
           ELSE 10 * Len(SelectSeq(lines, LAMBDA l : Range(l) \cap ArtGlyphs # {}))
                   >= 3 * Len(lines)
           : lines \in {non_blank_lines(code)} })

\* Whether the literal lit stands at position i of s.
LitAt(s, i, lit) ==
    /\ i >= 1
    /\ i + Len(lit) - 1 <= Len(s)
    /\ SubSeq(s, i, i + Len(lit) - 1) = lit

\* First position >= i where lit stands, 0 if there is none.
RECURSIVE FindLit(_, _, _)
FindLit(s, lit, i) ==
    IF i + Len(lit) - 1 > Len(s) THEN 0
    ELSE IF s[i] = lit[1] /\ LitAt(s, i, lit) THEN i
    ELSE FindLit(s, lit, i + 1)

\* Length of the longest run of tokens of class C that starts at i.
RECURSIVE RunLen(_, _, _)
RunLen(s, i, C) ==
    IF i > Len(s) \/ s[i] \notin C THEN 0 ELSE 1 + RunLen(s, i + 1, C)

\* (.+?)\} from position j: the position of the first brace-close behind at
\* least one character, none of which is a newline; 0 if there is none.
RECURSIVE ScanToBrace(_, _)
ScanToBrace(s, e) ==
    IF e > Len(s) \/ s[e - 1] = "\n" THEN 0
    ELSE IF s[e] = "}" THEN e
    ELSE ScanToBrace(s, e + 1)

LazyUntilBrace(s, j) == IF j > Len(s) THEN 0 ELSE ScanToBrace(s, j + 1)

\* One match attempt of \\subsubsection\*?\{[\d.]*\s*(.+?)\} at the heading
\* token at i. [\d.]* and \s* are greedy and give back one character at a
\* time, (.+?) is lazy. Result: [from, to] of group 1 and the end of the
\* match; to = 0 if the pattern does not match here.
heading_match(s, i) ==
    LET a == i + 1
        d == RunLen(s, a, DigitsDot)
        tries == {kw \in UNION {{<<k, w>> : w \in 0..RunLen(s, a + k, Whitespace)}
                                   : k \in 0..d} :
                     LazyUntilBrace(s, a + kw[1] + kw[2]) # 0}
    IN Only({ IF T = {} THEN [from |-> 0, to |-> 0]
              ELSE LET k == Max({kw[1] : kw \in T})
                       w == Max({kw[2] : kw \in {t \in T : t[1] = k}})
                   IN [from |-> a + k + w, to |-> LazyUntilBrace(s, a + k + w) - 1]
              : T \in {tries} })

\* re.findall(r'\\subsubsection\*?\{[\d.]*\s*(.+?)\}', s): group 1 of the
\* non-overlapping matches, from left to right.
RECURSIVE findall_headings(_, _)
findall_headings(s, i) ==
    IF i > Len(s) THEN <<>>
    ELSE IF s[i] \in HeadingTokens
    THEN Only({ IF m.to # 0
                THEN <<SubSeq(s, m.from, m.to)>> \o findall_headings(s, m.to + 2)
                ELSE findall_headings(s, i + 1)
                : m \in {heading_match(s, i)} })
    ELSE findall_headings(s, i + 1)

\* re.findall(r'\\textbf\{(.+?)\}', s)
RECURSIVE findall_textbf(_, _)
findall_textbf(s, i) ==
    IF i > Len(s) THEN <<>>
    ELSE IF s[i] = Textbf
    THEN Only({ IF e # 0
                THEN <<SubSeq(s, i + 1, e - 1)>> \o findall_textbf(s, e + 1)
                ELSE findall_textbf(s, i + 1)
                : e \in {LazyUntilBrace(s, i + 1)} })
    ELSE findall_textbf(s, i + 1)

RECURSIVE TextWidth(_)
TextWidth(s) == IF s = <<>> THEN 0 ELSE TokenWidth(Head(s)) + TextWidth(Tail(s))

\* text_before[-500:]: the tokens that lie wholly within the last 500
\* characters. (A token cut by the slice stands in front of them; what is
\* left of it cannot begin a \textbf{ match.)
RECURSIVE last_chars(_, _)
last_chars(s, n) ==
    IF s = <<>> \/ TokenWidth(s[Len(s)]) > n THEN <<>>
    ELSE Append(last_chars(SubSeq(s, 1, Len(s) - 1), n - TokenWidth(s[Len(s)])),
                s[Len(s)])

get_caption(text_before) ==
    Only({ IF heads # <<>> THEN strip(heads[Len(heads)])
           ELSE Only({ IF bolds # <<>>
                       THEN rstrip_set(strip(bolds[Len(bolds)]), {"."})
                       ELSE DefaultCaption
                       : bolds \in {findall_textbf(last_chars(text_before, LOOKBACK), 1)} })
           : heads \in {findall_headings(text_before, 1)} })

\* pattern.finditer(content) for \\begin\{verbatim\}(.*?)\\end\{verbatim\}
\* with re.DOTALL, from position pos: the matches as [start, code_from,
\* code_to, end] (first and last token of the match and of group 1).
RECURSIVE finditer_verbatim(_, _)
finditer_verbatim(content, pos) ==
    Only({ IF b = 0 THEN <<>>
           ELSE Only({ IF e = 0 THEN <<>>
                       ELSE <<[start |-> b, code_from |-> b + Len(BeginVerbatim),
                               code_to |-> e - 1, end |-> e + Len(EndVerbatim) - 1]>>
                            \o finditer_verbatim(content, e + Len(EndVerbatim))
                       : e \in {FindLit(content, EndVerbatim, b + Len(BeginVerbatim))} })
           : b \in {FindLit(content, BeginVerbatim, pos)} })

\* Lines 64-79: the parts appended for one match.
block_parts(content, m) ==
    Only({ IF Len(non_blank_lines(code)) < MIN_LINES \/ is_ascii_art(code)
           THEN [text |-> SubSeq(content, m.start, m.end), converted |-> 0]
           ELSE [text |-> BeginListing
                          \o escape_caption(get_caption(SubSeq(content, 1, m.start - 1)))
                          \o CloseCaption \o rstrip(code) \o <<"\n">> \o EndListing,
                 converted |-> 1]
           : code \in {SubSeq(content, m.code_from, m.code_to)} })

\* Lines 59-81: the loop over the matches and the tail.
RECURSIVE join_parts(_, _, _)
join_parts(content, matches, last_end) ==
    IF matches = <<>>
    THEN [text |-> SubSeq(content, last_end + 1, Len(content)), converted |-> 0]
    ELSE Only({ [text |-> SubSeq(content, last_end + 1, Head(matches).start - 1)
                            \o p.text \o rest.text,
                 converted |-> p.converted + rest.converted]
                : p \in {block_parts(content, Head(matches))},
                  rest \in {join_parts(content, Tail(matches), Head(matches).end)} })

\* ---- the inputs
LineKinds == {"code", "art"}
LineText(kind) ==
    CASE kind = "code"  -> <<"x">>
      [] kind = "art"   -> <<"x", "|">>
      [] kind = "blank" -> <<" ">>

RECURSIVE JoinLines(_)
JoinLines(kinds) ==
    IF kinds = <<>> THEN <<>>
    ELSE IF Len(kinds) = 1 THEN LineText(kinds[1])
    ELSE LineText(kinds[1]) \o <<"\n">> \o JoinLines(Tail(kinds))

VerbatimBlock(kinds) ==
    BeginVerbatim \o <<"\n">> \o JoinLines(kinds) \o <<"\n">> \o EndVerbatim

\* The line kinds of the first block: up to MaxLines non-blank lines; a
\* block of up to MIN_LINES + 1 of them may also hold one blank line,
\* anywhere.
InsertAt(s, i, x) == SubSeq(s, 1, i) \o <<x>> \o SubSeq(s, i + 1, Len(s))
BlockInputs ==
    LET plain == SeqsUpTo(LineKinds, MaxLines)
    IN plain \cup UNION {{InsertAt(s, i, "blank") : i \in 0..Len(s)}
                            : s \in {t \in plain : Len(t) <= MIN_LINES + 1}}

FiveCodeLines == <<"code", "code", "code", "code", "code">>

\* The text around the first block: <<tex_pre, tex_post>>. Two units are
\* malformed: a block start without an end in front of a complete block
\* (or: a block that shows the line \begin{verbatim}), with a short block
\* behind it, and a block end without a start. The last unit has a heading
\* with a command in its text.
Layouts ==
    { <<  <<>>,  <<>>  >>,
      <<  <<"\\subsubsection*{", "3", ".", "1", ".", " ", "x", "_", "x", "}", "\n">>,
          <<"\n", "x", "\n">> \o VerbatimBlock(FiveCodeLines)  >>,
      <<  <<Textbf, "x", ".", "}", Prose, "\n">>,
          <<"\n">> \o VerbatimBlock(<<"code", "art">>) \o <<"\n">>  >>,
      <<  <<>>,
          <<"\n">> \o BeginVerbatim \o <<"\n", "x", "\n">>
                 \o VerbatimBlock(FiveCodeLines) \o <<"\n">>
                 \o VerbatimBlock(<<"code">>)  >>,
      <<  <<>>,  <<"\n", "x", "\n">> \o EndVerbatim  >>,
      <<  <<"\\subsubsection*{", "3", ".", "1", ".", " ",
            Textbf, "x", "}", " ", "x", "}", "\n">>,
          <<>>  >> }

InitListing ==
    /\ \E lay \in Layouts : tex_pre = lay[1] /\ tex_post = lay[2]
    /\ block_lines \in BlockInputs
    /\ tex_file = tex_pre \o VerbatimBlock(block_lines) \o tex_post
    /\ converted = 0
    /\ written = FALSE
    /\ cls_pc = "new"
    /\ IdleButListing

\* process_file(filepath); it may be called again on the same file.
process_file ==
    /\ cls_pc \in {"new", "once"}
    /\ \E r \in {join_parts(tex_file, finditer_verbatim(tex_file, 1), 0)} :
          /\ converted' = r.converted
          /\ written' = (r.converted > 0)
          /\ tex_file' = IF r.converted > 0 THEN r.text ELSE tex_file
    /\ cls_pc' = IF cls_pc = "new" THEN "once" ELSE "twice"
    /\ UNCHANGED <<tex_pre, block_lines, tex_post>>
    /\ UNCHANGED notListing

NextListing == process_file

SpecListing == InitListing /\ [][NextListing]_vars

(***************************************************************************)
(* Claims about the Block Classifier (SpecListing)                         *)
(***************************************************************************)
NonBlankCount == Cardinality({i \in DOMAIN block_lines : block_lines[i] # "blank"})
ArtCount      == Cardinality({i \in DOMAIN block_lines : block_lines[i] = "art"})

\* The first block stands in the file as it was written / as a listing.
FirstBlockKept      == LitAt(tex_file, Len(tex_pre) + 1, VerbatimBlock(block_lines))
FirstBlockConverted == LitAt(tex_file, Len(tex_pre) + 1, BeginListing)

\* C7: a literal block with fewer than 5 non-blank lines is rejected
\* whatever its content: process_file never converts it to a listing.
C7_ShortBlockRejected ==
    (cls_pc \in {"once", "twice"} /\ NonBlankCount < 5) =>
        FirstBlockKept /\ ~FirstBlockConverted

\* Witness for C7: a block of five lines, four of them non-blank and none
\* with a glyph, was kept while another block of the unit was converted.
C7_Witness ==
    /\ cls_pc = "once"
    /\ Len(block_lines) = 5 /\ NonBlankCount = 4 /\ ArtCount = 0
    /\ FirstBlockKept
    /\ converted = 1

\* C8: a block with at least 5 non-blank lines is rejected when at least 30%
\* of its non-blank lines contain a glyph and accepted when fewer do, exactly
\* at the boundary: rejected iff 10 * glyph lines >= 3 * non-blank lines.
C8_GlyphCutoff ==
    (cls_pc \in {"once", "twice"} /\ NonBlankCount >= 5) =>
        /\ FirstBlockKept <=> (10 * ArtCount >= 3 * NonBlankCount)
        /\ FirstBlockConverted <=> (10 * ArtCount < 3 * NonBlankCount)

\* Witness for C8: a block of 10 non-blank lines, exactly 3 of them with a
\* glyph, was rejected.
C8_Witness ==
    /\ cls_pc = "once"
    /\ NonBlankCount = 10 /\ ArtCount = 3
    /\ FirstBlockKept /\ ~FirstBlockConverted

\* Whether out, from position pos on, is content behind last_end with every
\* rejected block of matches and all text outside the blocks as they were,
\* and a listing in the place of every accepted block.
RECURSIVE FrameKept(_, _, _, _, _)
FrameKept(content, matches, last_end, out, pos) ==
    IF matches = <<>>
    THEN SubSeq(out, pos, Len(out)) = SubSeq(content, last_end + 1, Len(content))
    ELSE LET m == Head(matches)
             code == SubSeq(content, m.code_from, m.code_to)
             at == pos + (m.start - 1 - last_end)
             close == FindLit(out, EndListing, at)
         IN /\ LitAt(out, pos, SubSeq(content, last_end + 1, m.start - 1))
            /\ IF Len(non_blank_lines(code)) < MIN_LINES \/ is_ascii_art(code)
               THEN /\ LitAt(out, at, SubSeq(content, m.start, m.end))
                    /\ FrameKept(content, Tail(matches), m.end, out,
                                 at + (m.end - m.start + 1))
               ELSE /\ LitAt(out, at, BeginListing)
                    /\ close # 0
                    /\ FrameKept(content, Tail(matches), m.end, out,
                                 close + Len(EndListing))

\* C25: process_file leaves every rejected block and all text outside the
\* accepted blocks as they were, does not write the file when it converted
\* no block, and converts no further block when it is called on its result.
C25_TranscodingFrame ==
    /\ [][cls_pc' # cls_pc =>
             /\ FrameKept(tex_file, finditer_verbatim(tex_file, 1), 0, tex_file', 1)
             /\ (converted' = 0 => ~written' /\ tex_file' = tex_file)]_vars
    /\ [](cls_pc = "twice" => converted = 0)

\* The tokens that open a brace group.
OpenTokens == HeadingTokens \cup {Textbf, "\\begin{", "\\end{", "[caption={"}

\* Position of the brace-close that ends the group entered depth times at
\* position i, 0 if there is none.
RECURSIVE MatchingBrace(_, _, _)
MatchingBrace(s, i, depth) ==
    IF i > Len(s) THEN 0
    ELSE IF s[i] \in OpenTokens THEN MatchingBrace(s, i + 1, depth + 1)
    ELSE IF s[i] = "}" THEN IF depth = 1 THEN i ELSE MatchingBrace(s, i + 1, depth - 1)
    ELSE MatchingBrace(s, i + 1, depth)

\* The texts of the headings of s from position i on, from left to right.
RECURSIVE HeadingTexts(_, _)
HeadingTexts(s, i) ==
    IF i > Len(s) THEN <<>>
    ELSE IF s[i] \in HeadingTokens /\ MatchingBrace(s, i + 1, 1) # 0
    THEN <<SubSeq(s, i + 1, MatchingBrace(s, i + 1, 1) - 1)>>
             \o HeadingTexts(s, MatchingBrace(s, i + 1, 1) + 1)
    ELSE HeadingTexts(s, i + 1)

\* A heading text without its leading number.
WithoutNumber(t) ==
    strip(SubSeq(t, 1 + RunLen(t, 1, DigitsDot), Len(t)))

\* The caption the block behind text_before is to get: from the most recent
\* heading, else from the most recent \textbf title of the last 500
\* characters, else the placeholder.
ExpectedCaption(text_before) ==
    LET heads == HeadingTexts(text_before, 1)
        bolds == findall_textbf(last_chars(text_before, LOOKBACK), 1)
    IN IF heads # <<>> THEN WithoutNumber(heads[Len(heads)])
       ELSE IF bolds # <<>> THEN rstrip_set(strip(bolds[Len(bolds)]), {"."})
       ELSE DefaultCaption

\* C18: the caption of an accepted block is the text of the most recent
\* heading in front of it without the leading number; the most recent
\* emphasized title of the last 500 characters when there is no heading;
\* the placeholder when there is neither.
C18_CaptionFromHeading ==
    (cls_pc = "once" /\ FirstBlockConverted) =>
        LitAt(tex_file, Len(tex_pre) + 1,
              BeginListing \o escape_caption(ExpectedCaption(tex_pre)) \o CloseCaption)

\* Whether the block delimiters of s from position i on are balanced, open
\* telling whether a block start is waiting for its end.
RECURSIVE Balanced(_, _, _)
Balanced(s, i, open) ==
    IF i > Len(s) THEN ~open
    ELSE IF LitAt(s, i, BeginVerbatim) THEN ~open /\ Balanced(s, i + 1, TRUE)
    ELSE IF LitAt(s, i, EndVerbatim) THEN open /\ Balanced(s, i + 1, FALSE)
    ELSE Balanced(s, i + 1, open)

\* The unit as it was before process_file.
InputUnit == tex_pre \o VerbatimBlock(block_lines) \o tex_post

\* Whether a listing of s holds a block start: the listing was made from the
\* start of one block and the end of another.
ListingAcrossBlocks(s) ==
    \E i \in DOMAIN s :
        /\ LitAt(s, i, BeginListing)
        /\ \E j \in (i + 1)..Len(s) :
              /\ LitAt(s, j, BeginVerbatim)
              /\ \A k \in i..j : ~LitAt(s, k, EndListing)

\* C17: a unit with unbalanced literal-block delimiters is not rewritten by
\* process_file, and no listing is made from the start of one block and the
\* end of a different block.
C17_MalformedNotRewritten ==
    (cls_pc \in {"once", "twice"}) =>
        /\ ~Balanced(InputUnit, 1, FALSE) => (~written /\ tex_file = InputUnit)
        /\ ~ListingAcrossBlocks(tex_file)

(***************************************************************************)
(* fix_roundtrip.py : Anchor Restorer (restore_labels)                     *)
(*                                                                         *)
(* Tokens: "\\caption{", "\\label{", "}", a caption text, an anchor name.  *)
(***************************************************************************)
MaxCaptions == 3     \* caption constructs in the restored text
MaxEntries  == 2     \* entries of the Caption Index

CaptionTexts == {"Skhema", "Hrafik"}
IndexNames   == {"fig:a", "fig:b"}
EquationKey  == "__equation__"

\* A caption construct of the input: its text and the anchors that already
\* follow it.
CaptionConstructs ==
    {[text |-> t, anchors |-> a] : t \in CaptionTexts, a \in {<<>>, <<"fig:old">>}}

Label(name) == <<"\\label{", name, "}">>

RECURSIVE RenderLabels(_)
RenderLabels(names) ==
    IF names = <<>> THEN <<>> ELSE Label(Head(names)) \o RenderLabels(Tail(names))

\* The text of a sequence of caption constructs, one per line.
RECURSIVE RenderCaptions(_)
RenderCaptions(caps) ==
    IF caps = <<>> THEN <<>>
    ELSE <<"\\caption{", Head(caps).text, "}">> \o RenderLabels(Head(caps).anchors)
         \o <<"\n">> \o RenderCaptions(Tail(caps))

\* The Caption Indexes: entries [name, caption] with distinct names.
Entries == {[name |-> n, caption |-> c] :
               n \in IndexNames, c \in CaptionTexts \cup {EquationKey}}
Indexes == {ix \in SeqsUpTo(Entries, MaxEntries) :
               \A i, j \in DOMAIN ix : i # j => ix[i].name # ix[j].name}

\* Lines 182-186: re.sub(r'(\\caption\{<caption>\})', r'\1\\label{<name>}',
\* text, count=1): the anchor is put behind the first \caption{<caption>}.
sub_caption_once(text, entry) ==
    LET pattern == <<"\\caption{", entry.caption, "}">>
        at == FindLit(text, pattern, 1)
    IN IF at = 0 THEN text
       ELSE SubSeq(text, 1, at + Len(pattern) - 1) \o Label(entry.name)
            \o SubSeq(text, at + Len(pattern), Len(text))

\* restore_labels(text, labels): the loop over labels.items().
RECURSIVE restore_labels(_, _)
restore_labels(text, index) ==
    IF index = <<>> THEN text
    ELSE IF Head(index).caption = EquationKey
    THEN restore_labels(text, Tail(index))
    ELSE restore_labels(sub_caption_once(text, Head(index)), Tail(index))

InitLabels ==
    /\ captions \in SeqsUpTo(CaptionConstructs, MaxCaptions)
    /\ labels \in Indexes
    /\ lbl_text = RenderCaptions(captions)
    /\ lbl_pc = "start"
    /\ lbl_reported = 0
    /\ IdleButLabel

\* main, lines 351-352: text = restore_labels(text, labels), then
\* print(f"Restored {len(labels)} labels")
RestoreLabels ==
    /\ lbl_pc = "start"
    /\ lbl_text' = restore_labels(lbl_text, labels)
    /\ lbl_reported' = Len(labels)
    /\ lbl_pc' = "done"
    /\ UNCHANGED <<captions, labels>>
    /\ UNCHANGED notLabel

NextLabels == RestoreLabels

SpecLabels == InitLabels /\ [][NextLabels]_vars

(***************************************************************************)
(* Claims about the Anchor Restorer (SpecLabels)                           *)
(***************************************************************************)
\* The first caption construct with the given text that is not yet followed
\* by an anchor receives the anchor; without such a construct nothing
\* changes.
RECURSIVE AttachToFirstUnlabelled(_, _)
AttachToFirstUnlabelled(caps, entry) ==
    IF caps = <<>> THEN <<>>
    ELSE IF Head(caps).text = entry.caption /\ Head(caps).anchors = <<>>
    THEN <<[Head(caps) EXCEPT !.anchors = <<entry.name>>]>> \o Tail(caps)
    ELSE <<Head(caps)>> \o AttachToFirstUnlabelled(Tail(caps), entry)

\* C4: for a caption-keyed index entry the anchor is appended to the first
\* caption with that exact text that is not already followed by an anchor; a
\* matching caption that already carries a trailing anchor is skipped.
C4_FirstUnlabelledCaption ==
    (lbl_pc = "done" /\ Len(labels) = 1 /\ labels[1].caption # EquationKey) =>
        lbl_text = RenderCaptions(AttachToFirstUnlabelled(captions, labels[1]))

\* The number of anchors in a text.
AnchorCount(text) == Cardinality({i \in DOMAIN text : text[i] = "\\label{"})

\* C16: the number of the "Restored N labels" message is the number of
\* anchors restore_labels has attached: entries without a matching caption
\* and equation-keyed entries do not count.
C16_ReportedIsAttached ==
    (lbl_pc = "done") =>
        lbl_reported = AnchorCount(lbl_text) - AnchorCount(RenderCaptions(captions))

\* C24: after restore_labels on a text whose captions carry no anchor, every
\* anchor name of the index stands in the text at most once and every
\* caption is followed by at most one anchor, also when two entries hold
\* the same caption text and the text holds that caption twice.
C24_OneAnchorPerCaption ==
    (lbl_pc = "done" /\ \A k \in DOMAIN captions : captions[k].anchors = <<>>) =>
        /\ \A n \in IndexNames :
              Cardinality({i \in DOMAIN lbl_text : LitAt(lbl_text, i, Label(n))}) <= 1
        /\ \A k \in DOMAIN captions : AnchorCount(LineOf(lbl_text, k)) <= 1

(***************************************************************************)
(* fix_roundtrip.py : Reverse Repair Pipeline                              *)
(*                                                                         *)
(* Tokens as before: a command with its opening brace or bracket, a        *)
(* single character, a title. A token of several characters holds no       *)
(* brace-close, bracket-close, hyphen, digit, dot or newline, and starts   *)
(* and ends with a character that is not white space. The closing \] of    *)
(* display math is the two tokens backslash and bracket-close, because     *)
(* [^\]] of fix_hyperref tells them apart; a backslash token stands only   *)
(* in front of a bracket-close or a brace-close. Titles in Cyrillic script *)
(* are written in transliteration.                                         *)
(***************************************************************************)
Section        == "\\section{"
SectionStar    == "\\section*{"
Subsection     == "\\subsection{"
Subsubsection  == "\\subsubsection{"
Texorpdfstring == "\\texorpdfstring{"
Digits         == {"2", "3"}
EnDash         == "<en-dash>"
TocTitle       == "Table of Contents"
\* promote_patterns of fix_section_hierarchy
PromoteTitles  == {"PRAKTYCHNA CHASTYNA", "PROHRAMNA REALIZATSIIA",
                   "Opys eksperymentalnoho stendu"}
\* unnumbered of fix_unnumbered_sections, in loop order
UnnumberedTitles == <<"VSTUP", "VYSNOVKY", "SPYSOK VYKORYSTANYKH DZHEREL">>
DisplayClose   == <<"\\", "]">>
BeginEquation  == <<"\\begin{", "equation", "}", "\n">>
EndEquation    == <<"\n", "\\end{", "equation", "}">>

\* re.sub(pattern, repl, s) from position i: the matches are found from left
\* to right and do not overlap. ends[i] is the last position of the match
\* that starts at i (0 if none), repls[i] what replaces s[i..ends[i]].
RECURSIVE re_sub(_, _, _, _)
re_sub(s, ends, repls, i) ==
    IF i > Len(s) THEN <<>>
    ELSE IF ends[i] # 0 THEN repls[i] \o re_sub(s, ends, repls, ends[i] + 1)
    ELSE <<s[i]>> \o re_sub(s, ends, repls, i + 1)

\* ---- 1. remove_toc_section
\* \\section\{Table of Contents\}\\label\{[^}]*\}\s*\n?  (the greedy \s*
\* takes the newlines as well)
toc_end(s, i) ==
    IF ~LitAt(s, i, <<Section, TocTitle, "}", "\\label{">>) THEN 0
    ELSE Only({ IF close = 0 THEN 0
                ELSE close + RunLen(s, close + 1, Whitespace)
                : close \in {FindIn(s, i + 4, {"}"})} })
remove_toc_section(text) ==
    re_sub(text,
           [i \in DOMAIN text |-> toc_end(text, i)],
           [i \in DOMAIN text |-> <<>>],
           1)

\* ---- 2. fix_display_math
AtLineStart(s, i) == i = 1 \/ s[i - 1] = "\n"
AtLineEnd(s, e)   == e = Len(s) \/ s[e + 1] = "\n"

\* ^\\\[(.+?)\\\]$ with re.MULTILINE: the first \] at a line end behind at
\* least one character, on the same line. e is where the \] would start;
\* the result is its last position.
RECURSIVE ScanToCloseAtEol(_, _)
ScanToCloseAtEol(s, e) ==
    IF e + 1 > Len(s) \/ s[e - 1] = "\n" THEN 0
    ELSE IF LitAt(s, e, DisplayClose) /\ AtLineEnd(s, e + 1) THEN e + 1
    ELSE ScanToCloseAtEol(s, e + 1)

single_line_end(s, i) ==
    IF s[i] = "\\[" /\ AtLineStart(s, i) THEN ScanToCloseAtEol(s, i + 2) ELSE 0

\* \n\s*\\\] at position n: the last position of the \], 0 if it does not
\* match.
CloseAfterNewline(s, n) ==
    IF n <= Len(s) /\ s[n] = "\n"
    THEN Only({ IF LitAt(s, c, DisplayClose) THEN c + 1 ELSE 0
                : c \in {n + 1 + RunLen(s, n + 1, Whitespace)} })
    ELSE 0

\* (.*?)\n\s*\\\] with re.DOTALL from position c: the first newline at or
\* behind c that white space and \] follow; the position of that newline.
RECURSIVE ScanToClose(_, _)
ScanToClose(s, n) ==
    IF n > Len(s) THEN 0
    ELSE IF CloseAfterNewline(s, n) # 0 THEN n
    ELSE ScanToClose(s, n + 1)

\* \\\[\s*\n(.*?)\n\s*\\\]: the greedy \s* ends in front of the last newline
\* of the white space that lets the rest match. Result: [from, to] of
\* group 1 and the end of the match, end = 0 if there is no match.
multi_line_match(s, i) ==
    IF s[i] # "\\[" THEN [from |-> 0, to |-> 0, end |-> 0]
    ELSE LET w == RunLen(s, i + 1, Whitespace)
             starts == {c \in (i + 2)..(i + 1 + w) :
                           s[c - 1] = "\n" /\ ScanToClose(s, c) # 0}
         IN Only({ IF S = {} THEN [from |-> 0, to |-> 0, end |-> 0]
                   ELSE [from |-> Max(S), to |-> ScanToClose(s, Max(S)) - 1,
                         end |-> CloseAfterNewline(s, ScanToClose(s, Max(S)))]
                   : S \in {starts} })
multi_line_end(s, i) == multi_line_match(s, i).end

\* The two substitutions of fix_display_math, \1 between \begin{equation}
\* and \end{equation}.
single_line(text) ==
    re_sub(text,
           [i \in DOMAIN text |-> single_line_end(text, i)],
           [i \in DOMAIN text |->
               BeginEquation \o SubSeq(text, i + 1, single_line_end(text, i) - 2)
                   \o EndEquation],
           1)
multi_line(text) ==
    re_sub(text,
           [i \in DOMAIN text |-> multi_line_end(text, i)],
           [i \in DOMAIN text |->
               Only({ IF m.end = 0 THEN <<>>
                      ELSE BeginEquation \o SubSeq(text, m.from, m.to) \o EndEquation
                      : m \in {multi_line_match(text, i)} })],
           1)

fix_display_math(text) == multi_line(single_line(text))

\* ---- 3. fix_inline_math
\* \\\(((?:[^\\]|\\.)*?)\\\): from \( to the first \) behind it; every token
\* between is taken by [^\\] or, a command, by \\. and [^\\].
inline_end(s, i) == IF s[i] = "\\(" THEN FindIn(s, i + 1, {"\\)"}) ELSE 0
fix_inline_math(text) ==
    re_sub(text,
           [i \in DOMAIN text |-> inline_end(text, i)],
           [i \in DOMAIN text |->
               <<"$">> \o SubSeq(text, i + 1, inline_end(text, i) - 1) \o <<"$">>],
           1)

\* ---- 4. fix_hyperref
\* \\hyperref\[([^\]]+)\]\{[^}]*\}
hyperref_end(s, i) ==
    IF s[i] # "\\hyperref[" THEN 0
    ELSE Only({ IF close <= i + 1 \/ ~LitAt(s, close, <<"]", "{">>) THEN 0
                ELSE FindIn(s, close + 2, {"}"})
                : close \in {FindIn(s, i + 1, {"]"})} })
fix_hyperref(text) ==
    re_sub(text,
           [i \in DOMAIN text |-> hyperref_end(text, i)],
           [i \in DOMAIN text |->
               <<"\\ref{">> \o SubSeq(text, i + 1, FindIn(text, i + 1, {"]"}) - 1)
                   \o <<"}">>],
           1)

\* ---- 5. strip_section_numbers
\* (\\section\{)\d+\s+
section_end(s, i) ==
    IF s[i] # Section THEN 0
    ELSE LET d == RunLen(s, i + 1, Digits)
             w == RunLen(s, i + 1 + d, Whitespace)
         IN IF d >= 1 /\ w >= 1 THEN i + d + w ELSE 0

\* \d+\.\d+\s+ behind position h: the end of the match, 0 if none.
two_level_end(s, h) ==
    LET d1 == RunLen(s, h + 1, Digits)
        dot == h + d1 + 1
        d2 == IF dot <= Len(s) /\ s[dot] = "." THEN RunLen(s, dot + 1, Digits) ELSE 0
        w  == RunLen(s, dot + d2 + 1, Whitespace)
    IN IF d1 >= 1 /\ d2 >= 1 /\ w >= 1 THEN dot + d2 + w ELSE 0

\* (\\subsection\{)\d+\.\d+\s+
subsection_end(s, i) == IF s[i] = Subsection THEN two_level_end(s, i) ELSE 0

\* (?:\.\d+){0,n} behind position e, greedy: the end of the last group and
\* the number of groups taken.
RECURSIVE DotGroups(_, _, _)
DotGroups(s, e, n) ==
    IF n = 0 \/ e + 2 > Len(s) \/ s[e + 1] # "." \/ s[e + 2] \notin Digits
    THEN [end |-> e, groups |-> 0]
    ELSE Only({ [end |-> r.end, groups |-> r.groups + 1]
                : r \in {DotGroups(s, e + 1 + RunLen(s, e + 2, Digits), n - 1)} })

\* (\\subsubsection\{)\d+(?:\.\d+){2,3}\.?\s*
subsubsection_end(s, i) ==
    IF s[i] # Subsubsection THEN 0
    ELSE LET d1 == RunLen(s, i + 1, Digits)
             g  == DotGroups(s, i + d1, 3)
             dot == IF g.end + 1 <= Len(s) /\ s[g.end + 1] = "." THEN 1 ELSE 0
         IN IF d1 >= 1 /\ g.groups >= 2
            THEN g.end + dot + RunLen(s, g.end + dot + 1, Whitespace)
            ELSE 0

\* (\\subsection\{\\texorpdfstring\{)\d+\.\d+\s+
texorpdfstring_end(s, i) ==
    IF LitAt(s, i, <<Subsection, Texorpdfstring>>) THEN two_level_end(s, i + 1) ELSE 0

\* The substitution number k of the four; the replacement \1 keeps the
\* command.
strip_pass(text, k) ==
    re_sub(text,
           [i \in DOMAIN text |->
               CASE k = 1 -> section_end(text, i)
                 [] k = 2 -> subsection_end(text, i)
                 [] k = 3 -> subsubsection_end(text, i)
                 [] k = 4 -> texorpdfstring_end(text, i)],
           [i \in DOMAIN text |->
               IF k = 4 /\ i < Len(text) THEN <<text[i], text[i + 1]>> ELSE <<text[i]>>],
           1)

\* Mutant of strip_section_numbers: \section takes a two-level number as
\* well.
strip_section_numbers_dotted(text) ==
    LET dotted == [i \in DOMAIN text |->
                      IF text[i] # Section THEN 0
                      ELSE IF two_level_end(text, i) # 0 THEN two_level_end(text, i)
                      ELSE section_end(text, i)]
        t1 == re_sub(text, dotted, [i \in DOMAIN text |-> <<text[i]>>], 1)
    IN strip_pass(strip_pass(strip_pass(t1, 2), 3), 4)

strip_section_numbers(text) ==
    strip_pass(strip_pass(strip_pass(strip_pass(text, 1), 2), 3), 4)

\* ---- 6. fix_section_hierarchy
\* text.split('\n'): the lines of the text from position i on.
RECURSIVE split_at_newlines(_, _)
split_at_newlines(s, i) ==
    Only({ IF n = 0 THEN <<SubSeq(s, i, Len(s))>>
           ELSE <<SubSeq(s, i, n - 1)>> \o split_at_newlines(s, n + 1)
           : n \in {FindIn(s, i, {"\n"})} })

\* line.replace('\\subsection', '\\section', 1) on a line where one of the
\* promote_patterns is found; the line as it is otherwise.
promote_line(line) ==
    Only({ IF p # 0 /\ FindIn(line, 1, PromoteTitles) # 0
           THEN [line EXCEPT ![p] = Section] ELSE line
           : p \in {FindIn(line, 1, {Subsection})} })

\* '\n'.join(result)
RECURSIVE join_lines(_)
join_lines(ls) ==
    IF Len(ls) = 1 THEN ls[1] ELSE ls[1] \o <<"\n">> \o join_lines(Tail(ls))

fix_section_hierarchy(text) ==
    Only({ join_lines([k \in 1..Len(ls) |-> promote_line(ls[k])])
           : ls \in {split_at_newlines(text, 1)} })

\* ---- 7. fix_en_dashes
\* (?<!-)--(?!-): two hyphens with no hyphen in front of or behind them.
en_dash_end(s, i) ==
    IF s[i] = "-" /\ (i = 1 \/ s[i - 1] # "-") /\ RunLen(s, i, {"-"}) = 2
    THEN i + 1 ELSE 0
fix_en_dashes(text) ==
    re_sub(text,
           [i \in DOMAIN text |-> en_dash_end(text, i)],
           [i \in DOMAIN text |-> <<EnDash>>],
           1)

\* ---- 8. fix_list_formatting
\* (\\item)\s*\n\s+: the white space behind \item, if it holds a newline
\* that is not its last character.
item_end(s, i) ==
    IF s[i] # "\\item" THEN 0
    ELSE LET w == RunLen(s, i + 1, Whitespace)
         IN IF \E n \in (i + 1)..(i + w - 1) : s[n] = "\n" THEN i + w ELSE 0
fix_list_formatting(text) ==
    re_sub(text,
           [i \in DOMAIN text |-> item_end(text, i)],
           [i \in DOMAIN text |-> <<"\\item", " ">>],
           1)

\* ---- 9. fix_unnumbered_sections
\* The substitutions for the titles from number k on.
RECURSIVE unnumber(_, _)
unnumber(text, k) ==
    IF k > Len(UnnumberedTitles) THEN text
    ELSE unnumber(re_sub(text,
                         [i \in DOMAIN text |->
                             IF LitAt(text, i, <<Section, UnnumberedTitles[k], "}">>)
                             THEN i + 2 ELSE 0],
                         [i \in DOMAIN text |-> <<SectionStar, UnnumberedTitles[k], "}">>],
                         1),
                  k + 1)
fix_unnumbered_sections(text) == unnumber(text, 1)

\* main, "Apply fixes in order": rule number k of the nine.
Rules == 1..9
apply_rule(k, text) ==
    CASE k = 1 -> remove_toc_section(text)
      [] k = 2 -> fix_display_math(text)
      [] k = 3 -> fix_inline_math(text)
      [] k = 4 -> fix_hyperref(text)
      [] k = 5 -> strip_section_numbers(text)
      [] k = 6 -> fix_section_hierarchy(text)
      [] k = 7 -> fix_en_dashes(text)
      [] k = 8 -> fix_list_formatting(text)
      [] k = 9 -> fix_unnumbered_sections(text)

\* ---- Inputs of the pipeline
MaxPrefix    == 4     \* tokens of a free heading prefix
MaxGroups    == 4     \* number groups of a dotted heading prefix
MaxFragments == 2     \* fragments of a composed text

PrefixChars == {"2", ".", " ", "\n"}
HeadingCommands ==
    {<<Section>>, <<Subsection>>, <<Subsubsection>>, <<Subsection, Texorpdfstring>>}

\* N.N. ... .N with g groups, the digits alternating.
RECURSIVE DottedNumber(_)
DottedNumber(g) ==
    IF g = 1 THEN <<"2">>
    ELSE DottedNumber(g - 1) \o <<".", IF g % 2 = 0 THEN "3" ELSE "2">>

DottedPrefixes ==
    {DottedNumber(g) \o dot \o ws :
        g \in 1..MaxGroups, dot \in {<<>>, <<".">>},
        ws \in {<<>>, <<" ">>, <<"\n">>, <<" ", " ">>}}

\* One heading: a command, a prefix and the title.
HeadingInputs ==
    {cmd \o prefix \o <<"T", "}">> :
        cmd \in HeadingCommands,
        prefix \in SeqsUpTo(PrefixChars, MaxPrefix) \cup DottedPrefixes}

\* What pandoc's round trip leaves for the rules to repair, one construct
\* each.
Fragments ==
    {<<Section, TocTitle, "}", "\\label{", "sec:a", "}", "\n">>,
     <<"\\[", "T", "\\", "]">>,
     <<"\\[", "\n", "T", "\n", "\\", "]">>,
     <<"\\[", "T", "\n", "T", "\\", "]">>,
     <<"\\(", "T", "\\)">>,
     <<"\\hyperref[", "sec:a", "]", "{", "T", "}">>,
     <<Subsection, "PRAKTYCHNA CHASTYNA", "}">>,
     <<Subsection, "2", ".", "3", " ", "T", "}">>,
     <<Section, "VSTUP", "}">>,
     <<"T", "-", "-", "T">>,
     <<"-">>,
     <<"\\item", "\n", " ", "T">>,
     <<"\n">>}

RECURSIVE Composed(_)
Composed(n) ==
    IF n = 0 THEN {<<>>}
    ELSE Composed(n - 1) \cup {t \o f : t \in Composed(n - 1), f \in Fragments}

Inputs == HeadingInputs \cup Composed(MaxFragments)

InitRepair ==
    /\ IdleButRepair
    /\ rp_in \in Inputs
    /\ rp_text = rp_in
    /\ rp_once = <<>>
    /\ rp_stage = 1
    /\ rp_pass = 1

\* main: one step of "Apply fixes in order".
Step(k, result) ==
    /\ rp_stage = k
    /\ rp_text' = result
    /\ rp_stage' = k + 1
    /\ UNCHANGED <<rp_in, rp_once, rp_pass>>
    /\ UNCHANGED notRepair

RemoveTocSection     == Step(1, remove_toc_section(rp_text))
FixDisplayMath       == Step(2, fix_display_math(rp_text))
FixInlineMath        == Step(3, fix_inline_math(rp_text))
FixHyperref          == Step(4, fix_hyperref(rp_text))
StripSectionNumbers  == Step(5, strip_section_numbers(rp_text))
FixSectionHierarchy  == Step(6, fix_section_hierarchy(rp_text))
FixEnDashes          == Step(7, fix_en_dashes(rp_text))
FixListFormatting    == Step(8, fix_list_formatting(rp_text))
FixUnnumberedSections == Step(9, fix_unnumbered_sections(rp_text))

\* The tool is run again, on the file it wrote.
RunAgain ==
    /\ rp_stage = 10
    /\ rp_pass = 1
    /\ rp_once' = rp_text
    /\ rp_pass' = 2
    /\ rp_stage' = 1
    /\ UNCHANGED <<rp_in, rp_text>>
    /\ UNCHANGED notRepair

NextRepair ==
    \/ RemoveTocSection
    \/ FixDisplayMath
    \/ FixInlineMath
    \/ FixHyperref
    \/ StripSectionNumbers
    \/ FixSectionHierarchy
    \/ FixEnDashes
    \/ FixListFormatting
    \/ FixUnnumberedSections
    \/ RunAgain

SpecRepair == InitRepair /\ [][NextRepair]_vars

\* ---- Claims about the pipeline
\* The display-math bracket pairs of s: <<i, j>> with \[ at i, the next \]
\* at j and no other \[ between them.
DisplayPairs(s) ==
    {p \in (DOMAIN s) \X (DOMAIN s) :
        /\ s[p[1]] = "\\["
        /\ p[2] = FindLit(s, DisplayClose, p[1] + 1)
        /\ \A k \in (p[1] + 1)..(p[2] - 1) : s[k] # "\\["}

PairContent(s, p) == SubSeq(s, p[1] + 1, p[2] - 1)

\* The pair occupies one line of its own / its content spans several lines.
OnOwnLine(s, p) ==
    /\ AtLineStart(s, p[1])
    /\ AtLineEnd(s, p[2] + 1)
    /\ "\n" \notin Range(PairContent(s, p))
SpansLines(s, p) == "\n" \in Range(strip(PairContent(s, p)))

\* Whether s holds an equation block that wraps the content c, white space
\* at its ends aside.
HasEquation(s, c) ==
    \E k \in DOMAIN s :
        /\ LitAt(s, k, BeginEquation)
        /\ FindLit(s, EndEquation, k + Len(BeginEquation) - 1) # 0
        /\ strip(SubSeq(s, k + Len(BeginEquation),
                        FindLit(s, EndEquation, k + Len(BeginEquation) - 1) - 1))
               = strip(c)

\* C20: fix_display_math rewrites a display-math bracket pair that occupies
\* one line of its own, and a pair whose content spans several lines, into
\* \begin{equation} ... \end{equation} around the same content.
C20_DisplayMathToEquation ==
    [][(rp_stage = 2 /\ rp_stage' = 3) =>
          \A p \in DisplayPairs(rp_text) :
              (strip(PairContent(rp_text, p)) # <<>>
                  /\ (OnOwnLine(rp_text, p) \/ SpansLines(rp_text, p)))
              => HasEquation(rp_text', PairContent(rp_text, p))]_vars

AllIn(p, C) == \A k \in 1..Len(p) : p[k] \in C
IsWhite(p)  == AllIn(p, Whitespace)

\* p is g numbers, joined by dots.
RECURSIVE IsDotted(_, _)
IsDotted(p, g) ==
    IF g = 1 THEN p # <<>> /\ AllIn(p, Digits)
    ELSE \E k \in 2..(Len(p) - 1) :
            /\ p[k] = "."
            /\ IsDotted(SubSeq(p, 1, k - 1), 1)
            /\ IsDotted(SubSeq(p, k + 1, Len(p)), g - 1)

\* The format of the number in front of a title, by depth:
\*   \section        N, white space
\*   \subsection     N.N, white space
\*   \subsubsection  N.N.N or N.N.N.N, a dot or none, white space or none
InDepthFormat(depth, p) ==
    \E k \in 0..Len(p) :
        LET number == SubSeq(p, 1, k)
            white  == SubSeq(p, k + 1, Len(p))
        IN /\ IsWhite(white)
           /\ CASE depth = 1 -> IsDotted(number, 1) /\ white # <<>>
                [] depth = 2 -> IsDotted(number, 2) /\ white # <<>>
                [] depth = 3 ->
                    \E g \in {3, 4} :
                        \/ IsDotted(number, g)
                        \/ /\ number # <<>> /\ number[k] = "."
                           /\ IsDotted(SubSeq(number, 1, k - 1), g)

\* The headings of a text: the position of the last token of the command
\* and the depth.
HeadingsOf(s) ==
    {[at |-> i, depth |-> 1] : i \in {j \in 1..Len(s) : s[j] = Section}}
    \cup {[at |-> i, depth |-> 2] : i \in {j \in 1..Len(s) : s[j] = Subsection}}
    \cup {[at |-> i, depth |-> 2] :
            i \in {j \in 2..Len(s) : s[j] = Texorpdfstring /\ s[j - 1] = Subsection}}
    \cup {[at |-> i, depth |-> 3] : i \in {j \in 1..Len(s) : s[j] = Subsubsection}}

\* The positions of the longest number in the depth's format behind each
\* heading command.
NumberPositions(s) ==
    UNION {LET ends == {e \in h.at..Len(s) :
                           InDepthFormat(h.depth, SubSeq(s, h.at + 1, e))}
           IN IF ends = {} THEN {} ELSE (h.at + 1)..Max(ends)
           : h \in HeadingsOf(s)}

\* s without the tokens at the positions of R.
Without(s, R) ==
    LET F[i \in 0..Len(s)] ==
            IF i = 0 THEN <<>>
            ELSE IF i \in R THEN F[i - 1] ELSE Append(F[i - 1], s[i])
    IN F[Len(s)]

StripStep == rp_stage = 5 /\ rp_stage' = 6

\* C6 as the code has it: strip_section_numbers removes, behind every heading
\* command, the longest number written in the format of that depth: N and
\* white space behind \section, N.N and white space behind \subsection (with
\* or without \texorpdfstring), N.N.N or N.N.N.N with a dot or none and
\* white space or none behind \subsubsection. Everything else stays as it
\* is: \section{2 T} becomes \section{T}, \section{2.3 T} stays.
C6_StripsDepthFormat ==
    [][StripStep => rp_text' = Without(rp_text, NumberPositions(rp_text))]_vars

\* \section{2 T} has become \section{T}.
C6_Witness ==
    /\ rp_pass = 1
    /\ rp_stage = 6
    /\ rp_in = <<Section, "2", " ", "T", "}">>
    /\ rp_text = <<Section, "T", "}">>

\* C6 as the specification has it, at the depth of its example: a \section
\* whose text is a number of any depth (numbers joined by dots), white space
\* and the title comes out with the title alone, as \section{2.3 T} would.
C6_StripsAnyNumber ==
    [][ /\ StripStep
        /\ Len(rp_text) >= 5
        /\ rp_text[1] = Section
        /\ SubSeq(rp_text, Len(rp_text) - 1, Len(rp_text)) = <<"T", "}">>
        /\ \E k \in 2..(Len(rp_text) - 3) :
              /\ \E g \in 1..k : IsDotted(SubSeq(rp_text, 2, k), g)
              /\ IsWhite(SubSeq(rp_text, k + 1, Len(rp_text) - 2))
        => rp_text' = <<Section, "T", "}">> ]_vars

\* C5: the second run of the pipeline, on the output of the first, changes
\* nothing, and no rule changes its own output.
C5_Idempotent ==
    /\ [](rp_pass = 2 /\ rp_stage = 10 => rp_text = rp_once)
    /\ [][\A k \in Rules :
            rp_stage = k /\ rp_stage' = k + 1
            => apply_rule(k, rp_text') = rp_text']_vars

(***************************************************************************)
(* preprocess_tex.py : Forward Normalizer (preprocess_file)                *)
(*                                                                         *)
(* Tokens: a command with its opening brace, a single character, a name.   *)
(* A token of several characters holds no brace, and only "\\_" holds an   *)
(* underscore: its underscore can open a group as a bare one does. "x" is  *)
(* a Latin letter, "zh" a letter of the Cyrillic class                     *)
(* [а-яА-ЯіІїЇєЄґҐ]. The texts hold none of the tocloft, \setcounter and    *)
(* \thispagestyle directives that strip_titlepage_content removes as well, *)
(* and no lstlisting block.                                                *)
(***************************************************************************)
Cyrillic       == {"zh"}
BeginTitlepage == <<"\\begin{", "titlepage", "}">>
EndTitlepage   == <<"\\end{", "titlepage", "}">>
BeginFigure    == <<"\\begin{", "figure", "}">>
Htbp           == <<"[", "htbp", "]">>
HyphenMarker   == <<"{", "\\text{", "-", "}", "}">>     \* {\text{-}}
DuplicateMark  == "% duplicate: "

\* ---- strip_titlepage_content
\* \\begin\{titlepage\}.*?\\end\{titlepage\} with re.DOTALL
titlepage_end(s, i) ==
    IF ~LitAt(s, i, BeginTitlepage) THEN 0
    ELSE Only({ IF e = 0 THEN 0 ELSE e + 2 : e \in {FindLit(s, EndTitlepage, i + 3)} })

strip_titlepage_content(content) ==
    LET t1 == re_sub(content,
                     [i \in DOMAIN content |-> titlepage_end(content, i)],
                     [i \in DOMAIN content |-> <<>>],
                     1)
    IN SelectSeq(t1, LAMBDA t : t \notin {"\\tableofcontents", "\\newpage"})

\* ---- fix_figure_placement
\* \\begin\{figure\}\{?[Hh]!?\}?
stray_placement_end(s, i) ==
    IF ~LitAt(s, i, BeginFigure) THEN 0
    ELSE LET h == IF LitAt(s, i + 3, <<"{", "H">>) THEN i + 4
                  ELSE IF LitAt(s, i + 3, <<"H">>) THEN i + 3 ELSE 0
             bang == IF h # 0 /\ LitAt(s, h + 1, <<"!">>) THEN h + 1 ELSE h
         IN IF h = 0 THEN 0
            ELSE IF LitAt(s, bang + 1, <<"}">>) THEN bang + 1 ELSE bang

\* \\begin\{figure\}\[H!?\]
here_placement_end(s, i) ==
    IF LitAt(s, i, BeginFigure \o <<"[", "H", "]">>) THEN i + 5
    ELSE IF LitAt(s, i, BeginFigure \o <<"[", "H", "!", "]">>) THEN i + 6
    ELSE 0

fix_figure_placement(content) ==
    LET t1 == re_sub(content,
                     [i \in DOMAIN content |-> stray_placement_end(content, i)],
                     [i \in DOMAIN content |-> BeginFigure \o Htbp],
                     1)
    IN re_sub(t1,
              [i \in DOMAIN t1 |-> here_placement_end(t1, i)],
              [i \in DOMAIN t1 |-> BeginFigure \o Htbp],
              1)

\* ---- fix_escaped_underscores_in_math
\* _\{[^}]*\\_[^}]*\} : an underscore, a brace, and an escaped underscore in
\* front of the first brace-close.
subscript_end(s, i) ==
    IF s[i] \in {"_", "\\_"} /\ LitAt(s, i + 1, <<"{">>)
    THEN Only({ IF close # 0 /\ \E k \in (i + 2)..(close - 1) : s[k] = "\\_"
                THEN close ELSE 0
                : close \in {FindIn(s, i + 2, {"}"})} })
    ELSE 0

\* fix_subscript: match.group(0).replace('\\_', '{\\text{-}}')
fix_subscript(s, i, e) ==
    <<s[i]>> \o str_replace(SubSeq(s, i + 1, e), <<"\\_">>, HyphenMarker)

fix_escaped_underscores_in_math(content) ==
    re_sub(content,
           [i \in DOMAIN content |-> subscript_end(content, i)],
           [i \in DOMAIN content |->
               fix_subscript(content, i, subscript_end(content, i))],
           1)

\* ---- fix_math_text_commands
\* \\text\{([^}]+)\}
text_end(s, i) ==
    IF s[i] = "\\text{" /\ i + 1 <= Len(s) /\ s[i + 1] # "}"
    THEN FindIn(s, i + 2, {"}"}) ELSE 0

\* replace_text_in_math: \textrm if the content holds a Cyrillic letter
replace_text_in_math(s, i, e) ==
    IF \E k \in (i + 1)..(e - 1) : s[k] \in Cyrillic
    THEN <<"\\textrm{">> \o SubSeq(s, i + 1, e)
    ELSE SubSeq(s, i, e)

fix_math_text_commands(content) ==
    re_sub(content,
           [i \in DOMAIN content |-> text_end(content, i)],
           [i \in DOMAIN content |->
               replace_text_in_math(content, i, text_end(content, i))],
           1)

\* ---- fix_cyrillic_subscripts
\* ([_^])\{([^}]+)\}
group_end(s, i) ==
    IF /\ s[i] \in {"_", "^", "\\_"}
       /\ LitAt(s, i + 1, <<"{">>)
       /\ i + 2 <= Len(s) /\ s[i + 2] # "}"
    THEN FindIn(s, i + 3, {"}"}) ELSE 0

\* wrap_cyrillic_sub: re.match(r'^[cyrillic_]+$', inner); the $ also
\* matches in front of a newline that ends inner.
wrap_cyrillic_sub(s, i, e) ==
    LET last == IF s[e - 1] = "\n" /\ e - 1 > i + 2 THEN e - 2 ELSE e - 1
    IN IF \A k \in (i + 2)..last : s[k] \in Cyrillic \cup {"_"}
       THEN <<s[i], "{", "\\textrm{">> \o SubSeq(s, i + 2, e - 1) \o <<"}", "}">>
       ELSE SubSeq(s, i, e)

fix_cyrillic_subscripts(content) ==
    re_sub(content,
           [i \in DOMAIN content |-> group_end(content, i)],
           [i \in DOMAIN content |->
               IF group_end(content, i) = 0 THEN <<>>
               ELSE wrap_cyrillic_sub(content, i, group_end(content, i))],
           1)

\* ---- fix_duplicate_labels
\* re.search(r'\\label\{([^}]+)\}', line): the end of the first match in the
\* line from position i on, 0 if there is none.
RECURSIVE label_search(_, _)
label_search(line, i) ==
    IF i + 2 > Len(line) THEN 0
    ELSE IF line[i] = "\\label{" /\ line[i + 1] # "}" /\ FindIn(line, i + 2, {"}"}) # 0
    THEN i
    ELSE label_search(line, i + 1)

\* The loop over the lines from line k on: result after it.
RECURSIVE dedup_lines(_, _, _, _)
dedup_lines(ls, k, seen, result) ==
    IF k > Len(ls) THEN result
    ELSE Only({
        IF m = 0 THEN dedup_lines(ls, k + 1, seen, Append(result, ls[k]))
        ELSE Only({
            IF label \in seen
            THEN dedup_lines(ls, k + 1, seen,
                     Append(result,
                            str_replace(ls[k],
                                        <<"\\label{">> \o label \o <<"}">>,
                                        <<DuplicateMark, "\\label{">> \o label \o <<"}">>)))
            ELSE dedup_lines(ls, k + 1, seen \cup {label}, Append(result, ls[k]))
            : label \in {SubSeq(ls[k], m + 1, FindIn(ls[k], m + 2, {"}"}) - 1)} })
        : m \in {label_search(ls[k], 1)} })

\* Mutant of fix_duplicate_labels: the lines of the duplicates are deleted.
fix_duplicate_labels_deleting(content) ==
    join_lines(SelectSeq(dedup_lines(split_at_newlines(content, 1), 1, {}, <<>>),
                         LAMBDA line : DuplicateMark \notin Range(line)))

fix_duplicate_labels(content) ==
    join_lines(dedup_lines(split_at_newlines(content, 1), 1, {}, <<>>))

\* ---- strip_titleformat
\* (\s*\{[^}]*\}){n} behind position e: the end of the last group, 0 if
\* there are fewer than n groups.
RECURSIVE BraceGroups(_, _, _)
BraceGroups(s, e, n) ==
    IF n = 0 THEN e
    ELSE Only({ IF ~LitAt(s, open, <<"{">>) \/ FindIn(s, open + 1, {"}"}) = 0 THEN 0
                ELSE BraceGroups(s, FindIn(s, open + 1, {"}"}), n - 1)
                : open \in {e + 1 + RunLen(s, e + 1, Whitespace)} })

strip_titleformat(content) ==
    re_sub(content,
           [i \in DOMAIN content |->
               IF content[i] = "\\titleformat" THEN BraceGroups(content, i, 5) ELSE 0],
           [i \in DOMAIN content |-> <<>>],
           1)

NormalizerRules == 1..7

\* Mutant of normalize: the title page is stripped behind the other rules.
normalize_title_last(k, content, is_titlepage) ==
    CASE k = 1 -> content
      [] k = 2 -> fix_figure_placement(content)
      [] k = 3 -> fix_escaped_underscores_in_math(content)
      [] k = 4 -> fix_math_text_commands(content)
      [] k = 5 -> fix_cyrillic_subscripts(content)
      [] k = 6 -> fix_duplicate_labels(content)
      [] k = 7 -> strip_titleformat(
                     IF is_titlepage THEN strip_titlepage_content(content)
                     ELSE content)

\* preprocess_file: rule number k of the file, in the order of the calls.
\* The first applies to titlepage.tex only.
normalize(k, content, is_titlepage) ==
    CASE k = 1 -> IF is_titlepage THEN strip_titlepage_content(content) ELSE content
      [] k = 2 -> fix_figure_placement(content)
      [] k = 3 -> fix_escaped_underscores_in_math(content)
      [] k = 4 -> fix_math_text_commands(content)
      [] k = 5 -> fix_cyrillic_subscripts(content)
      [] k = 6 -> fix_duplicate_labels(content)
      [] k = 7 -> strip_titleformat(content)

\* ---- Inputs of preprocess_file
MaxParts == 2        \* parts of a unit

\* What a unit is made of, one construct each.
Parts ==
    {BeginTitlepage \o <<"\\label{", "fig:a", "}">> \o EndTitlepage \o <<"\n">>,
     <<"\\label{", "fig:a", "}", "\n">>,
     <<"\\label{", "fig:b", "}", "\n">>,
     <<"\\label{", "fig:a", "}", "\\label{", "fig:b", "}", "\n">>,
     BeginFigure \o <<"[", "H", "]", "\n">>,
     <<"x", "_", "{", "x", "\\_", "x", "}">>,
     <<"x", "^", "{", "x", "\\_", "x", "}">>,
     <<"\\text{", "zh", "}">>,
     <<"_", "{", "zh", "}">>,
     <<"\\titleformat", "{", "x", "}", "{", "}", "{", "}", "{", "}", "{", "}", "\n">>,
     <<"\\tableofcontents", "\n">>,
     <<"x", "\n">>}

RECURSIVE Units(_)
Units(n) ==
    IF n = 0 THEN {<<>>}
    ELSE Units(n - 1) \cup {t \o f : t \in Units(n - 1), f \in Parts}

InitNormalize ==
    /\ IdleButNormalizer
    /\ nz_in \in Units(MaxParts)
    /\ nz_titlepage \in BOOLEAN
    /\ nz_text = nz_in
    /\ nz_stage = 1
    /\ nz_out = <<>>

\* preprocess_file: one call of a rule, content = rule(content).
Rule(k) ==
    /\ nz_stage = k
    /\ nz_text' = normalize(k, nz_text, nz_titlepage)
    /\ nz_stage' = k + 1
    /\ UNCHANGED <<nz_in, nz_titlepage, nz_out>>
    /\ UNCHANGED notNormalizer

StripTitlepageContent  == Rule(1)
FixFigurePlacement     == Rule(2)
FixEscapedUnderscores  == Rule(3)
FixMathTextCommands    == Rule(4)
FixCyrillicSubscripts  == Rule(5)
FixDuplicateLabels     == Rule(6)
StripTitleformat       == Rule(7)

\* convert_lstlisting_for_pandoc finds no lstlisting block in these units
\* and returns the content as it is; the content is written to output_path.
WriteOutput ==
    /\ nz_stage = 8
    /\ nz_out' = nz_text
    /\ nz_stage' = 9
    /\ UNCHANGED <<nz_in, nz_titlepage, nz_text>>
    /\ UNCHANGED notNormalizer

NextNormalize ==
    \/ StripTitlepageContent
    \/ FixFigurePlacement
    \/ FixEscapedUnderscores
    \/ FixMathTextCommands
    \/ FixCyrillicSubscripts
    \/ FixDuplicateLabels
    \/ StripTitleformat
    \/ WriteOutput

SpecNormalize == InitNormalize /\ [][NextNormalize]_vars

\* ---- Claims about preprocess_file
LabelNames == {"fig:a", "fig:b"}

\* The positions of the active labels of a name: those with no comment mark
\* in front of them on their line.
ActiveLabels(s, name) ==
    {i \in 1..Len(s) :
        /\ LitAt(s, i, <<"\\label{", name, "}">>)
        /\ \A j \in 1..(i - 1) :
              s[j] = DuplicateMark => \E k \in j..i : s[k] = "\n"}

\* C13: after fix_duplicate_labels every anchor name has at most one active
\* occurrence in the unit, also with several anchors on one line.
C13_OneActivePerName ==
    (nz_stage = 7) =>
        \A name \in LabelNames : Cardinality(ActiveLabels(nz_text, name)) <= 1

\* C22: fix_duplicate_labels applied to its own output changes nothing: a
\* label that is commented out as a duplicate is not commented out again.
C22_SecondPassChangesNothing ==
    (nz_stage = 7) => fix_duplicate_labels(nz_text) = nz_text

\* The name of the first anchor of a line, "" if the line has none.
FirstAnchor(line) ==
    IF label_search(line, 1) = 0 THEN "" ELSE line[label_search(line, 1) + 1]

\* A repeated anchor is found on line k: its first anchor is the first
\* anchor of an earlier line.
RepeatedFound(ls, k) ==
    /\ FirstAnchor(ls[k]) # ""
    /\ \E j \in 1..(k - 1) : FirstAnchor(ls[j]) = FirstAnchor(ls[k])

\* A line without its comment marks.
Unmarked(line) == SelectSeq(line, LAMBDA t : t # DuplicateMark)

\* Whether new is old with nothing but comment marks put in, each directly
\* in front of the anchor name, the first anchor of the line among them.
OnlyMarked(old, new, name) ==
    /\ Unmarked(new) = old
    /\ \A i \in DOMAIN new :
          new[i] = DuplicateMark => LitAt(new, i + 1, <<"\\label{", name, "}">>)
    /\ label_search(new, 1) > 1
    /\ new[label_search(new, 1) - 1] = DuplicateMark

C14_TitlepageFirst ==
    /\ (nz_stage = 9) =>
          nz_out =
            strip_titleformat(fix_duplicate_labels(fix_cyrillic_subscripts(
              fix_math_text_commands(fix_escaped_underscores_in_math(
                fix_figure_placement(
                  IF nz_titlepage THEN strip_titlepage_content(nz_in)
                  ELSE nz_in))))))
    /\ (nz_stage = 6 /\ nz_titlepage) =>
          \A i \in 1..Len(nz_text) : titlepage_end(nz_text, i) = 0

\* titlepage.tex with a label inside the enclosure and the same label behind
\* it: the label behind it is written as it was, active.
C14_Witness ==
    /\ nz_stage = 9
    /\ nz_titlepage
    /\ nz_in = BeginTitlepage \o <<"\\label{", "fig:a", "}">> \o EndTitlepage
                 \o <<"\n", "\\label{", "fig:a", "}", "\n">>
    /\ nz_out = <<"\n", "\\label{", "fig:a", "}", "\n">>

\* C14 as the specification has it: title-page stripping comes behind
\* duplicate-label neutralization, which sees the labels of the enclosure.
C14_TitlepageLast ==
    (nz_stage = 9 /\ nz_titlepage) =>
        nz_out =
          strip_titleformat(strip_titlepage_content(fix_duplicate_labels(
            fix_cyrillic_subscripts(fix_math_text_commands(
              fix_escaped_underscores_in_math(fix_figure_placement(nz_in)))))))

\* Whether position k lies in a subscript or superscript group: behind _{
\* or ^{ with no brace-close between, and in front of a brace-close.
InScriptGroup(s, k) ==
    /\ FindIn(s, k + 1, {"}"}) # 0
    /\ \E i \in 1..(k - 2) :
          /\ s[i] \in {"_", "^"}
          /\ s[i + 1] = "{"
          /\ \A j \in (i + 2)..k : s[j] # "}"

\* s with the hyphen marker for every escaped underscore in such a group.
RepairedGroups(s) ==
    LET F[k \in 0..Len(s)] ==
            IF k = 0 THEN <<>>
            ELSE IF s[k] = "\\_" /\ InScriptGroup(s, k) THEN F[k - 1] \o HyphenMarker
            ELSE Append(F[k - 1], s[k])
    IN F[Len(s)]

\* C15: fix_escaped_underscores_in_math replaces every escaped underscore
\* inside a _{...} or ^{...} group by the hyphen marker and changes nothing
\* else; none remains in such a group.
C15_NoEscapedUnderscoreInGroups ==
    [][nz_stage = 3 /\ nz_stage' = 4 => nz_text' = RepairedGroups(nz_text)]_vars

====
